---- MODULE Spec2Model ----
(***************************************************************************)
(* A model of the bounded-depth web crawler (gniemann/webcrawler).         *)
(*                                                                         *)
(* Spec      the crawl job: start_crawler, the deferred task that runs     *)
(*           Crawler.__call__ with the DFS or the BFS strategy, the BFS    *)
(*           fetch workers, the result store, and the deferred runtime's   *)
(*           re-run of the task after the instance died or the task failed.*)
(* SpecIDGen threads calling one IDGenerator, one bytecode step at a time. *)
(* SpecShard the output callback applied to a flush of any length.         *)
(* SpecPhrase the strategies and the driver on stand-in page nodes that    *)
(*           carry either value of phrase_found.                           *)
(* SpecPage  PageNode.make_pagenode on a page of any body.                 *)
(* SpecLinks a strategy working through the links of one built node.       *)
(* SpecPost  Crawler.post: the start requests and what they leave stored.  *)
(* SpecPoll  Crawler.get: successive polls of a job while its crawl writes.*)
(* SpecFavicon threads calling the lock-guarded Favicon.get_favicon.       *)
(* SpecCache a FileCache (the mapping or the hash set) taking new entries. *)
(* SpecWalk  one get_favicon call of crawler/favicon.py, fetch by fetch.   *)
(* SpecPageFavicon the fetch workers in the Favicon class of page.py.      *)
(*                                                                         *)
(* Conventions.  Python's None is written None (-1): an int that sorts     *)
(* before every id, as None does in Python 2.  A list index i of the       *)
(* source is position i+1 of the sequence.  A page node is a record; the   *)
(* length of its link list is an input of the environment (the page body), *)
(* drawn when the strategy first reads the list.                           *)
(***************************************************************************)
EXTENDS Integers, Sequences, FiniteSets, Bags, TLC

\* ------------------------------------------------------------------ bounds
MaxDepth == 3        \* max_depth of a request is drawn from 1..MaxDepth
MaxSeedLinks == 3    \* the seed page has 0..MaxSeedLinks outbound links
MaxLinks == 1        \* every other page has 0..MaxLinks outbound links
MaxId == 4           \* fetches succeed only while fewer than MaxId ids are used
MaxRestarts == 1     \* how often the deferred runtime re-runs the task
MaxRaises == 1       \* BFS fetch tasks that end in an exception
GenThreads == 3      \* SpecIDGen: threads that call the generator
MaxCalls == 2        \* SpecIDGen: calls each thread makes
MaxStart == 2        \* SpecIDGen: starting is drawn from 1..MaxStart
MaxFlush == 120      \* SpecShard: a flush has 0..MaxFlush entries
MaxAnchors == 2      \* SpecPage: a page body has 0..MaxAnchors anchors
MaxPosts == 2        \* SpecPost: POST requests
MaxPolls == 3        \* SpecPoll: GET requests
MaxNodes == 3        \* SpecPoll: nodes the crawl writes
MaxBatch == 2        \* SpecPoll: nodes in one record
MaxWaits == 1        \* SpecPoll: sleeps of a poll that finds nothing
FavThreadCount == 2  \* SpecFavicon: threads that call get_favicon
MaxFavCalls == 2     \* SpecFavicon: calls each thread makes
MaxItems == 7        \* SpecCache: the keys that are added are 1..MaxItems

\* BredthFirstCrawl.PENDING_FUTURE_LIMIT, scaled down from the source's 20 so that
\* a frontier of a few pages exceeds it.
PENDING_FUTURE_LIMIT == 1

\* --------------------------------------------------------- program constants
DefaultDepth == 1     \* CrawlerForm.depth: default=1
BATCH_SIZE == 50
RecursionLimit == 3   \* crawler/favicon.py: if level > 3
SaveThreshold == 5    \* crawler/favicon.py: if self.new_count > 5

None == -1
LinksNone == -1      \* _links is None: the node was unpickled
LinksLoaded == -2    \* _links was set by load(); its length not yet read

VARIABLES
    strategy,            \* JobModel.type: "DFS" or "BFS"
    max_depth,           \* Crawler.max_depth
    pc,                  \* where the job is: init, rejected, scheduled, crawl,
                         \*   done, returned, raised
    job_results,         \* the JobResultsModel records of the job, in write order
    output_buffer,       \* Crawler.__call__'s output_buffer
    cur_id,              \* IDGenerator.cur_id
    restarts,            \* re-runs of the deferred task so far
    task_raises,         \* BFS fetch tasks that raised so far
    node_list, cur_node, \* DepthFirstCrawler._crawl: the list, index of cur_node
    depth,               \* BredthFirstCrawl._crawl: the loop variable
    current_nodes, next_nodes,
    current_node,        \* the node popped last
    links_left,          \* links of current_node the for loop has yet to submit
    queued,              \* pending_futures that are not done: a bag of parents
    finished,            \* pending_futures that are done: a bag of results
    completed_futures,   \* the done set futures.wait returned, being iterated
    new_node,            \* the local new_node of BredthFirstCrawl._crawl
    resumed,             \* history: this invocation loaded unfinished nodes
    persisted,           \* history: number of records stored when it began
    cause,               \* history: how _crawl ended: none, return, raise
    phrase_yielded,      \* history: a node with phrase_found was yielded by
                         \*   this invocation
    gen_start,           \* SpecIDGen: the starting argument of IDGenerator
    gen_lock,            \* IDGenerator.lock: 0 when free, else the holder
    gen_pc,              \* where each thread is in IDGenerator.__call__
    gen_tmp,             \* the value of self.cur_id each thread loaded (line 59)
    gen_ret,             \* the value each thread is about to return (line 60)
    gen_calls,           \* calls each thread has begun
    gen_seen,            \* history: the largest value returned before the
                         \*   thread's current call began
    gen_returned,        \* history: the completed calls, in order of completion
    page_url,            \* SpecPage: the url argument of PageNode.__init__
    page_end_phrase,     \* the end_phrase argument: TRUE when a phrase is given
    page_response,       \* what retrieve_url gives for the url
    page_node,           \* the PageNode under construction
    attempted,           \* history: the links of page_node a strategy has tried
    post_form,           \* SpecPost: the form of the POST being handled
    post_response,       \* the answer to the last POST
    posts,               \* POST requests so far
    jobs,                \* the JobModel entities of the datastore
    next_job_id,         \* the id the datastore gives the next JobModel
    batches,             \* the JobResultsModel entities, in write order
    deferred,            \* the tasks deferred.defer has queued
    poll,                \* SpecPoll: the GET being handled
    responses,           \* history: the answers to the polls, in order
    polls,               \* GET requests so far
    wrote,               \* nodes the crawl of the job has written
    reyields,            \* nodes it has written a second time
    crawl_over,          \* the crawl of the job has written its last record
    fav_web,             \* SpecFavicon: what each site answers
    fav_lock,            \* Favicon.lock: 0 when free, else the holder
    fav_pc,              \* where each thread is in get_favicon
    fav_arg,             \* the arguments of each thread's call
    fav_ret,             \* what each thread's call is about to return
    fav_calls,           \* calls each thread has begun
    host_to_hash,        \* Favicon.host_to_hash.data
    hash_set,            \* Favicon.hash_set.data
    fav_blobs,           \* the blob store: the hashes h with a file h.ico
    file_cache,          \* SpecCache: one FileCache, its data and its checkpoint
    fav_walk,            \* SpecWalk: one get_favicon call, fetch by fetch
    fav_saves,           \* the bag of hashes save_file has stored a blob for
    fav_probes,          \* history: fetches of each host's /favicon.ico
    fav_returned         \* history: the host and result of every completed call

crawlVars == <<strategy, max_depth, pc, job_results, output_buffer, cur_id,
               restarts, task_raises, node_list, cur_node, depth, current_nodes,
               next_nodes, current_node, links_left, queued, finished,
               completed_futures, new_node, resumed, persisted, cause,
               phrase_yielded>>
genVars == <<gen_start, gen_lock, gen_pc, gen_tmp, gen_ret, gen_calls, gen_seen,
             gen_returned>>
pageVars == <<page_url, page_end_phrase, page_response, page_node, attempted>>
postVars == <<post_form, post_response, posts>>
storeVars == <<jobs, next_job_id, batches, deferred>>
pollVars == <<poll, responses, polls, wrote, reyields, crawl_over>>
auxVars == <<file_cache, fav_walk, fav_saves>>
favVars == <<fav_web, fav_lock, fav_pc, fav_arg, fav_ret, fav_calls, host_to_hash,
             hash_set, fav_blobs, auxVars, fav_probes, fav_returned>>
extVars == <<pageVars, postVars, storeVars, pollVars, favVars>>
vars == <<crawlVars, genVars, extVars>>

\* ------------------------------------------------------------------ values
\* A PageNode as the strategies hold it (page.py __slots__, url and favicon left out).
PageNode(id, parent, d, links, phrase) ==
    [kind |-> "node", id |-> id, parent |-> parent, depth |-> d,
     links |-> links, phrase_found |-> phrase]

\* What future.result() gives besides a node: None, or it raises.
NoNode == [kind |-> "none", id |-> 0, parent |-> 0, depth |-> 0,
           links |-> 0, phrase_found |-> FALSE]
Raises == [kind |-> "raises", id |-> 0, parent |-> 0, depth |-> 0,
           links |-> 0, phrase_found |-> FALSE]
Unbound == [kind |-> "unbound", id |-> 0, parent |-> 0, depth |-> 0,
            links |-> 0, phrase_found |-> FALSE]

\* PageNode.__getstate__: what a pickled node keeps.
Pickled(n) == [kind |-> "node", id |-> n.id, parent |-> n.parent, depth |-> n.depth]
\* PageNode.__setstate__: every other slot is None.
Unpickled(e) == PageNode(e.id, e.parent, e.depth, LinksNone, FALSE)

TerminationSentinal == [kind |-> "sentinel", id |-> 0, parent |-> 0, depth |-> 0]

IsNode(e) == e.kind = "node"
IsSentinel(e) == e.kind = "sentinel"

\* PageNode.load, lines 204-207: phrase_found for a given end_phrase argument.
load_phrase_found(end_phrase_given, body_has_phrase) ==
    end_phrase_given /\ body_has_phrase

\* PageNode.__init__ calls self.load() with no end_phrase.
init_phrase_found(body_has_phrase) == load_phrase_found(FALSE, body_has_phrase)

\* phrase_found of the node make_pagenode gives.  The strategies call it
\* through the class; a harness that puts a stand-in in its place (stubbed)
\* gives nodes with either value.
built_phrase_found(stubbed, body_has_phrase) ==
    IF stubbed THEN body_has_phrase ELSE init_phrase_found(body_has_phrase)

\* A check that never finds the phrase.
check_for_phrase_Never(node) == FALSE

\* Crawler.check_for_phrase
check_for_phrase(node) == node.phrase_found

\* ------------------------------------------------------------------ lists
RECURSIVE Flatten(_)
Flatten(ss) == IF ss = <<>> THEN <<>> ELSE Head(ss) \o Flatten(Tail(ss))

Range(s) == {s[i] : i \in 1..Len(s)}

Max(S) == CHOOSE x \in S : \A y \in S : y <= x

\* The sort keys of the source's three list.sort calls.
SortKey(which, e) ==
    CASE which = "parent_id" -> <<e.parent, e.id>>
      [] which = "id" -> <<e.id>>
      [] which = "depth_parent_id" -> <<e.depth, e.parent, e.id>>

RECURSIVE LexLess(_, _)
LexLess(a, b) ==
    IF a = <<>> \/ b = <<>> THEN a = <<>> /\ b # <<>>
    ELSE IF Head(a) # Head(b) THEN Head(a) < Head(b)
    ELSE LexLess(Tail(a), Tail(b))

\* x put behind the last element of the sorted list s whose key is not larger.
RECURSIVE InsertSorted(_, _, _)
InsertSorted(which, x, s) ==
    IF s = <<>> THEN <<x>>
    ELSE IF LexLess(SortKey(which, x), SortKey(which, s[Len(s)]))
         THEN Append(InsertSorted(which, x, SubSeq(s, 1, Len(s) - 1)), s[Len(s)])
         ELSE Append(s, x)

\* list.sort(key=...): a stable sort.
RECURSIVE StableSort(_, _)
StableSort(which, s) ==
    IF s = <<>> THEN <<>>
    ELSE InsertSorted(which, s[Len(s)], StableSort(which, SubSeq(s, 1, Len(s) - 1)))

\* ------------------------------------------------------------ result store
\* A callback that puts the whole flush into one record.
crawler_output_to_datastore_OneRecord(output_list) ==
    IF output_list = <<>> THEN <<>> ELSE <<output_list>>

\* crawler_output_to_datastore: one record per slice of 50 entries.
RECURSIVE crawler_output_to_datastore(_)
crawler_output_to_datastore(output_list) ==
    IF output_list = <<>> THEN <<>>
    ELSE IF Len(output_list) <= BATCH_SIZE THEN <<output_list>>
    ELSE <<SubSeq(output_list, 1, BATCH_SIZE)>>
         \o crawler_output_to_datastore(SubSeq(output_list, BATCH_SIZE + 1, Len(output_list)))

\* JobModel.has_results
has_results == job_results # <<>>

\* JobModel.get_results: the entries of every record of the job.  The ancestor
\* query is taken to give the records in the order they were written.
get_results == Flatten(job_results)

\* A buffer written as it is, and one written in descending key order.
SortBuffer_Unsorted(buf) == buf
SortBuffer_Descending(buf) ==
    LET sorted == StableSort("parent_id", buf)
    IN  [i \in 1..Len(sorted) |-> sorted[Len(sorted) + 1 - i]]

\* output_buffer.sort(key=lambda n: (n.parent, n.id))
SortBuffer(buf) == StableSort("parent_id", buf)

\* The periodic flush, lines 121-125: what is written.
PeriodicBatch(buf) == SortBuffer(buf)

\* A finally block that forgets the buffer.
FinalBatch_SentinelOnly(buf) == <<TerminationSentinal>>

\* The finally block, lines 134-136: what is written.
FinalBatch(buf) == Append(SortBuffer(buf), TerminationSentinal)


\* ------------------------------------------------------------- page bodies
\* The lengths a link list can turn out to have.
LinkCounts == 0..MaxLinks
SeedLinkCounts == 0..MaxSeedLinks

\* len(node.links): known once read, else an input.
CountsOf(n) == IF n.links >= 0 THEN {n.links} ELSE LinkCounts

\* PageNode.links: a node whose _links is None is loaded again, which can raise.
MustFetch(n) == n.links = LinksNone

\* IDGenerator.__init__: cur_id = starting - 1
IDGenerator(starting) == starting - 1

\* A generator whose call does not count.
NextId_Stuck(cur) == cur

\* IDGenerator.__call__, lines 59-60: the value cur_id takes, which is returned.
NextId(cur) == cur + 1

\* A constructor that takes its id before it loads the page.
FailedInit_TakesId(cur) == NextId(cur)

\* PageNode.__init__ that raises in load() or get_favicon (page.py 169-171):
\* line 175, id(), is not reached and the counter stays.
FailedInit(cur) == cur

\* ------------------------------------------------------------------ resume
HasSentinel(entries) == \E i \in 1..Len(entries) : IsSentinel(entries[i])

\* DepthFirstCrawler._get_unfinished_nodes: every stored entry, as stored.
DfsUnfinished == get_results

\* BredthFirstCrawl._get_unfinished_nodes, lines 329-338: the loop.  nodes holds
\* entries and NoNode (None); idx is the source's index.  "error" when the source
\* raises (IndexError on nodes[parent], AttributeError on None.depth).
RECURSIVE BfsMark(_, _)
BfsMark(nodes, idx) ==
    IF idx > 0 /\ nodes[idx + 1].kind # "none"
    THEN LET p == nodes[idx + 1].parent IN
         IF p < 0 \/ p >= Len(nodes)
         THEN [error |-> TRUE, nodes |-> nodes, idx |-> idx]
         ELSE LET marked == [nodes EXCEPT ![p + 1] = NoNode] IN
              IF marked[idx + 1].kind = "none"
              THEN [error |-> TRUE, nodes |-> marked, idx |-> idx]
              ELSE IF marked[idx + 1].depth = max_depth
                   THEN BfsMark([marked EXCEPT ![idx + 1] = NoNode], idx - 1)
                   ELSE BfsMark(marked, idx - 1)
    ELSE [error |-> FALSE, nodes |-> nodes, idx |-> idx]

\* s without its None entries, from position lo on.
RECURSIVE Survivors(_, _)
Survivors(s, lo) ==
    IF lo > Len(s) THEN <<>>
    ELSE IF s[lo].kind = "none" THEN Survivors(s, lo + 1)
    ELSE <<s[lo]>> \o Survivors(s, lo + 1)

\* BredthFirstCrawl._get_unfinished_nodes: [error, nodes].  The sort by id
\* raises AttributeError on a stored sentinel.
BfsUnfinished ==
    LET stored == get_results IN
    IF HasSentinel(stored) THEN [error |-> TRUE, nodes |-> <<>>]
    ELSE LET sorted == [i \in 1..Len(stored) |->
                           Unpickled(StableSort("id", stored)[i])]
             m == BfsMark(sorted, Len(sorted) - 1)
         IN  IF m.error THEN [error |-> TRUE, nodes |-> <<>>]
             ELSE [error |-> FALSE,
                   nodes |-> StableSort("depth_parent_id",
                                        Survivors(m.nodes, IF m.idx < 0 THEN 1 ELSE m.idx + 1))]

\* Crawler.__call__, line 109
LastId(root) == IF root # <<>> THEN Max({root[i].id : i \in 1..Len(root)}) ELSE 0

\* ------------------------------------------------------------- frame helpers
DfsIdle == node_list' = <<>> /\ cur_node' = 0

BfsIdle ==
    /\ depth' = 0
    /\ current_nodes' = <<>>
    /\ next_nodes' = <<>>
    /\ current_node' = NoNode
    /\ links_left' = 0
    /\ queued' = EmptyBag
    /\ finished' = EmptyBag
    /\ completed_futures' = EmptyBag
    /\ new_node' = Unbound

dfsVars == <<node_list, cur_node>>
bfsVars == <<depth, current_nodes, next_nodes, current_node, links_left, queued,
             finished, completed_futures, new_node>>
jobVars == <<strategy, max_depth, restarts, task_raises>>
histVars == <<resumed, persisted>>

\* The driver takes a yielded node (lines 118-125): append, and when 1.5 s have
\* passed since the last write (flush), sort, write and clear the buffer.  When
\* the strategy then returns at once (stop: the phrase was found), the finally
\* block follows.
Yield(node, flush, stop) ==
    LET buf == Append(output_buffer, Pickled(node))
        written == IF flush
                   THEN job_results \o crawler_output_to_datastore(PeriodicBatch(buf))
                   ELSE job_results
        kept == IF flush THEN <<>> ELSE buf
    IN  /\ phrase_yielded' = (phrase_yielded \/ node.phrase_found)
        /\ IF stop
           THEN /\ job_results' = written \o crawler_output_to_datastore(FinalBatch(kept))
                /\ output_buffer' = <<>>
                /\ pc' = "done"
                /\ cause' = "return"
           ELSE /\ job_results' = written
                /\ output_buffer' = kept
                /\ UNCHANGED <<pc, cause>>

\* _crawl ended (returned, or raised into the except clause): the finally block.
Finalize(how) ==
    /\ job_results' = job_results \o crawler_output_to_datastore(FinalBatch(output_buffer))
    /\ output_buffer' = <<>>
    /\ pc' = "done"
    /\ cause' = how
    /\ UNCHANGED phrase_yielded
    /\ DfsIdle /\ BfsIdle
    /\ UNCHANGED <<jobVars, histVars, cur_id, genVars, extVars>>

\* An exception leaves __call__ before the try statement (lines 91-111).
Escapes ==
    /\ pc' = "raised"
    /\ DfsIdle /\ BfsIdle
    /\ UNCHANGED <<jobVars, job_results, output_buffer, cur_id, genVars, extVars>>


\* ------------------------------------------------------------------- Init
GenIdle ==
    /\ gen_start = 1
    /\ gen_lock = 0
    /\ gen_pc = <<>>
    /\ gen_tmp = <<>>
    /\ gen_ret = <<>>
    /\ gen_calls = <<>>
    /\ gen_seen = <<>>
    /\ gen_returned = <<>>

\* No page is being built.
PageIdle ==
    /\ page_url = <<>>
    /\ page_end_phrase = FALSE
    /\ page_response = [ok |-> FALSE, anchors |-> <<>>, has_phrase |-> FALSE,
                        ico |-> "fails", saved |-> FALSE]
    /\ page_node = [state |-> "unbuilt", links |-> <<>>, phrase_found |-> FALSE,
                    favicon |-> [kind |-> "None", host |-> <<>>, path |-> ""]]
    /\ attempted = <<>>

NoForm == [start_page |-> "none", search_type |-> "none", depth |-> "none",
           seed |-> "none"]
NoResponse == [status |-> "none", errors |-> {}, job_id |-> None,
               root |-> NoNode]

\* No POST is being handled.
PostIdle ==
    /\ post_form = NoForm
    /\ post_response = NoResponse
    /\ posts = 0

\* An empty datastore and task queue.
StoreIdle ==
    /\ jobs = {}
    /\ next_job_id = 1
    /\ batches = <<>>
    /\ deferred = <<>>

NoPoll == [pc |-> "idle", job |-> 0, counted |-> {}, seen |-> {}, nodes |-> <<>>,
           waited |-> 0]

\* No GET is being handled, and no crawl writes.
PollIdle ==
    /\ poll = NoPoll
    /\ responses = <<>>
    /\ polls = 0
    /\ wrote = 0
    /\ reyields = 0
    /\ crawl_over = FALSE

\* No thread is in get_favicon.
FavIdle ==
    /\ fav_web = <<>>
    /\ fav_lock = 0
    /\ fav_pc = <<>>
    /\ fav_arg = <<>>
    /\ fav_ret = <<>>
    /\ fav_calls = <<>>
    /\ host_to_hash = <<>>
    /\ hash_set = {}
    /\ fav_blobs = {}
    /\ file_cache = <<>>
    /\ fav_walk = <<>>
    /\ fav_saves = <<>>
    /\ fav_probes = <<>>
    /\ fav_returned = {}

ExtIdle == PageIdle /\ PostIdle /\ StoreIdle /\ PollIdle /\ FavIdle

\* No crawl exists.
CrawlIdle ==
    /\ strategy = "BFS" /\ max_depth = 1 /\ pc = "init"
    /\ job_results = <<>> /\ output_buffer = <<>>
    /\ cur_id = 0
    /\ restarts = 0 /\ task_raises = 0
    /\ node_list = <<>> /\ cur_node = 0
    /\ depth = 0
    /\ current_nodes = <<>> /\ next_nodes = <<>>
    /\ current_node = NoNode
    /\ links_left = 0
    /\ queued = EmptyBag /\ finished = EmptyBag /\ completed_futures = EmptyBag
    /\ new_node = Unbound
    /\ resumed = FALSE /\ persisted = 0 /\ cause = "none" /\ phrase_yielded = FALSE

\* A request was posted: search_type and depth are its form fields.
Init ==
    /\ strategy \in {"DFS", "BFS"}
    /\ max_depth \in 1..MaxDepth
    /\ pc = "init"
    /\ job_results = <<>>
    /\ output_buffer = <<>>
    /\ cur_id = 0
    /\ restarts = 0
    /\ task_raises = 0
    /\ node_list = <<>> /\ cur_node = 0
    /\ depth = 0
    /\ current_nodes = <<>> /\ next_nodes = <<>>
    /\ current_node = NoNode
    /\ links_left = 0
    /\ queued = EmptyBag /\ finished = EmptyBag /\ completed_futures = EmptyBag
    /\ new_node = Unbound
    /\ resumed = FALSE
    /\ persisted = 0
    /\ cause = "none" /\ phrase_yielded = FALSE
    /\ GenIdle
    /\ ExtIdle

\* ----------------------------------------------------------- start_crawler
\* The root page is fetched; when that fails no job is made (lines 357-360),
\* else the job is stored and the crawler deferred with the root (362-373).
start_crawler ==
    /\ pc = "init"
    /\ \/ pc' = "rejected"
       \/ pc' = "scheduled"
    /\ UNCHANGED <<jobVars, job_results, output_buffer, cur_id, dfsVars,
                   bfsVars, histVars, cause, phrase_yielded, genVars, extVars>>

\* The root as the deferred task receives it: pickled and unpickled.
Root == Unpickled(Pickled(PageNode(0, None, 0, LinksLoaded, FALSE)))

\* The strategy's _crawl starts on root (a node or a list of nodes).
StartCrawl(root, isList) ==
    IF strategy = "DFS"
    THEN /\ node_list' = (IF isList THEN root ELSE <<root>>)
         /\ cur_node' = Len(node_list')
         /\ BfsIdle
    ELSE /\ current_nodes' = (IF isList THEN root ELSE <<root>>)
         /\ depth' = 1
         /\ next_nodes' = <<>>
         /\ current_node' = NoNode
         /\ links_left' = 0
         /\ queued' = EmptyBag /\ finished' = EmptyBag
         /\ completed_futures' = EmptyBag
         /\ new_node' = Unbound
         /\ DfsIdle

\* ------------------------------------------------- Crawler.__call__, 90-114
\* A fresh run: root.links loads the unpickled root, and an empty list makes
\* line 102 load it once more; a failed load raises out of __call__.
InvokeFresh ==
    /\ pc = "scheduled"
    /\ ~has_results
    /\ resumed' = FALSE /\ persisted' = 0 /\ cause' = "none" /\ phrase_yielded' = FALSE
    /\ \/ Escapes
       \/ \E k \in SeedLinkCounts :
            /\ pc' = "crawl"
            /\ cur_id' = IDGenerator(1)
            /\ StartCrawl([Root EXCEPT !.links = k], FALSE)
            /\ UNCHANGED <<jobVars, job_results, output_buffer, genVars, extVars>>

\* A run that finds stored records: the strategy's unfinished nodes are the root.
InvokeResume ==
    /\ pc = "scheduled"
    /\ has_results
    /\ resumed' = TRUE /\ persisted' = Len(job_results)
    /\ cause' = "none" /\ phrase_yielded' = FALSE
    /\ IF strategy = "DFS"
       THEN LET root == DfsUnfinished IN
            IF HasSentinel(root)
            THEN /\ pc' = "returned"
                 /\ DfsIdle /\ BfsIdle
                 /\ UNCHANGED <<jobVars, job_results, output_buffer, cur_id, genVars, extVars>>
            ELSE /\ pc' = "crawl"
                 /\ cur_id' = IDGenerator(LastId(root) + 1)
                 /\ StartCrawl([i \in 1..Len(root) |-> Unpickled(root[i])], TRUE)
                 /\ UNCHANGED <<jobVars, job_results, output_buffer, genVars, extVars>>
       ELSE LET u == BfsUnfinished IN
            IF u.error
            THEN Escapes
            ELSE /\ pc' = "crawl"
                 /\ cur_id' = IDGenerator(LastId(u.nodes) + 1)
                 /\ StartCrawl(u.nodes, TRUE)
                 /\ UNCHANGED <<jobVars, job_results, output_buffer, genVars, extVars>>

\* ------------------------------------------- DepthFirstCrawler._crawl, 177-210
InDFS == pc = "crawl" /\ strategy = "DFS"

CurNode == node_list[cur_node]

\* A loop test that lets a node at max_depth descend.
DfsCanDescend_Inclusive(n) == n.depth <= max_depth

\* line 185
DfsCanDescend(n) == n.depth < max_depth

\* The while condition fails: _crawl returns.
DFSReturn ==
    /\ InDFS
    /\ ~DfsCanDescend(CurNode)
    /\ Finalize("return")

\* cur_node.links has to load the page again and the fetch fails: TypeError.
DFSReloadFails ==
    /\ InDFS
    /\ DfsCanDescend(CurNode)
    /\ MustFetch(CurNode)
    /\ Finalize("raise")

\* No link left: cur_node = node_list[cur_node.parent]; a parent of None or one
\* beyond the list raises (TypeError, IndexError).
DFSBacktrack ==
    /\ InDFS
    /\ DfsCanDescend(CurNode)
    /\ 0 \in CountsOf(CurNode)
    /\ LET p == CurNode.parent IN
       IF p = None \/ p >= Len(node_list)
       THEN Finalize("raise")
       ELSE /\ node_list' = [node_list EXCEPT ![cur_node].links = 0]
            /\ cur_node' = p + 1
            /\ UNCHANGED <<jobVars, pc, job_results, output_buffer, cur_id, bfsVars, histVars, cause, phrase_yielded, genVars, extVars>>

\* One turn of the inner loop (194-197): a link is chosen and removed, and
\* make_pagenode gives None, raises, or gives a node that is yielded (204-210).
DFSTryLinkBy(stubbed) ==
    /\ InDFS
    /\ DfsCanDescend(CurNode)
    /\ \E k \in CountsOf(CurNode) :
         /\ k > 0
         /\ \/ /\ node_list' = [node_list EXCEPT ![cur_node].links = k - 1]
               /\ cur_id' = FailedInit(cur_id)
               /\ UNCHANGED <<jobVars, pc, job_results, output_buffer,
                              cur_node, bfsVars, histVars, cause, phrase_yielded, genVars, extVars>>
            \/ Finalize("raise")
            \/ /\ cur_id < MaxId
               /\ \E body_has_phrase \in BOOLEAN, flush \in BOOLEAN :
                    LET new == PageNode(NextId(cur_id), CurNode.id, CurNode.depth + 1,
                                        LinksLoaded,
                                        built_phrase_found(stubbed, body_has_phrase))
                    IN  /\ cur_id' = NextId(cur_id)
                        /\ Yield(new, flush, check_for_phrase(new))
                        /\ IF check_for_phrase(new)
                           THEN DfsIdle
                           ELSE /\ node_list' = Append(
                                     [node_list EXCEPT ![cur_node].links = k - 1], new)
                                /\ cur_node' = Len(node_list) + 1
                        /\ UNCHANGED <<jobVars, bfsVars, histVars, genVars, extVars>>

DFSTryLink == DFSTryLinkBy(FALSE)

\* ------------------------------------------- BredthFirstCrawl._crawl, 233-311
InBFS == pc = "crawl" /\ strategy = "BFS"

\* len(pending_futures)
PendingCount == BagCardinality(queued) + BagCardinality(finished)

\* line 258
OverCap == PendingCount > PENDING_FUTURE_LIMIT

\* inside the for loop over completed_futures (269-285)
Harvesting == completed_futures # EmptyBag

\* the task submitted for a link of parent (254-255), known by its parent
Task(parent) == [id |-> parent.id, depth |-> parent.depth]

\* line 284 and line 306
KeepForNextLevel == depth < max_depth

\* current_nodes.pop() and iter(current_node.links) (245-253); a node that has
\* to load its page again raises TypeError when the fetch fails.
BFSPop ==
    /\ InBFS /\ ~Harvesting /\ ~OverCap
    /\ links_left = 0
    /\ current_nodes # <<>>
    /\ LET node == current_nodes[Len(current_nodes)] IN
       \/ /\ MustFetch(node)
          /\ Finalize("raise")
       \/ \E k \in CountsOf(node) :
            /\ current_nodes' = SubSeq(current_nodes, 1, Len(current_nodes) - 1)
            /\ current_node' = [node EXCEPT !.links = k]
            /\ links_left' = k
            /\ UNCHANGED <<jobVars, pc, job_results, output_buffer, cur_id, dfsVars,
                           depth, next_nodes, queued, finished, completed_futures,
                           new_node, histVars, cause, phrase_yielded, genVars, extVars>>

\* A for loop that never enters the while loop of line 258.
SubmitRoom_NoLimit == links_left

\* The submits the for loop makes before the test of line 258 holds: one more
\* than the limit leaves room for.
SubmitRoom == PENDING_FUTURE_LIMIT + 1 - PendingCount

\* The for loop over the links (253-258) up to the point where it has to wait:
\* executor.submit for link after link, until the links are used up or
\* len(pending_futures) exceeds the limit.
BFSSubmit ==
    /\ InBFS /\ ~Harvesting /\ ~OverCap
    /\ links_left > 0
    /\ LET room == SubmitRoom
           n == IF links_left < room THEN links_left ELSE room
       IN  /\ queued' = queued (+) [t \in {Task(current_node)} |-> n]
           /\ links_left' = links_left - n
    /\ UNCHANGED <<jobVars, pc, job_results, output_buffer, cur_id,
                   dfsVars, depth, current_nodes, next_nodes, current_node, finished,
                   completed_futures, new_node, histVars, cause, phrase_yielded, genVars, extVars>>

\* futures.wait(pending_futures, timeout=.25) (259-260): the done ones leave the set.
BFSWait ==
    /\ InBFS /\ ~Harvesting /\ OverCap
    /\ finished # EmptyBag
    /\ completed_futures' = finished
    /\ finished' = EmptyBag
    /\ UNCHANGED <<jobVars, pc, job_results, output_buffer, cur_id,
                   dfsVars, depth, current_nodes, next_nodes, current_node,
                   links_left, queued, new_node, histVars, cause, phrase_yielded, genVars, extVars>>

\* What new_node is after the try statement of the over-cap loop (270-274): the
\* except clause assigns new_none, so new_node keeps its value.
ResultOverCap(result) == IF result.kind = "raises" THEN new_node ELSE result

\* What new_node is after the try statement of the drain loop (292-296).
ResultDrain(result) == IF result.kind = "raises" THEN NoNode ELSE result

\* Lines 276-285 and 298-307 for a bound new_node nn.
BfsTake(nn) ==
    IF nn.kind = "none"
    THEN /\ new_node' = nn
         /\ UNCHANGED <<pc, job_results, output_buffer, cause, phrase_yielded, depth,
                        current_nodes, next_nodes, current_node, links_left, queued>>
    ELSE \E flush \in BOOLEAN :
           /\ Yield(nn, flush, check_for_phrase(nn))
           /\ IF check_for_phrase(nn)
              THEN /\ depth' = 0
                   /\ current_nodes' = <<>>
                   /\ next_nodes' = <<>>
                   /\ current_node' = NoNode
                   /\ links_left' = 0
                   /\ queued' = EmptyBag
                   /\ new_node' = Unbound
              ELSE /\ new_node' = nn
                   /\ next_nodes' = (IF KeepForNextLevel THEN Append(next_nodes, nn)
                                     ELSE next_nodes)
                   /\ UNCHANGED <<depth, current_nodes, current_node, links_left, queued>>

\* One turn of the for loop over completed_futures (269-285).
BFSHarvest ==
    /\ InBFS /\ Harvesting
    /\ \E result \in BagToSet(completed_futures) :
         LET nn == ResultOverCap(result)
             rest == completed_futures (-) SetToBag({result})
         IN  IF nn.kind = "unbound"
             THEN Finalize("raise")
             ELSE /\ BfsTake(nn)
                  /\ IF check_for_phrase(nn) /\ nn.kind # "none"
                     THEN completed_futures' = EmptyBag /\ finished' = EmptyBag
                     ELSE completed_futures' = rest /\ UNCHANGED finished
                  /\ UNCHANGED <<jobVars, cur_id, dfsVars, histVars, genVars, extVars>>

\* One turn of the for loop over as_completed(pending_futures) (291-307).
BFSDrain ==
    /\ InBFS /\ ~Harvesting /\ ~OverCap
    /\ links_left = 0
    /\ current_nodes = <<>>
    /\ \E result \in BagToSet(finished) :
         LET nn == ResultDrain(result) IN
         /\ BfsTake(nn)
         /\ IF check_for_phrase(nn) /\ nn.kind # "none"
            THEN finished' = EmptyBag
            ELSE finished' = finished (-) SetToBag({result})
         /\ UNCHANGED <<jobVars, cur_id, dfsVars, completed_futures,
                        histVars, genVars, extVars>>

\* The level is done (309): the next depth, or the end of the for loop (240).
BFSNextLevel ==
    /\ InBFS /\ ~Harvesting
    /\ links_left = 0
    /\ current_nodes = <<>>
    /\ PendingCount = 0
    /\ IF depth < max_depth
       THEN /\ depth' = depth + 1
            /\ current_nodes' = next_nodes
            /\ next_nodes' = <<>>
            /\ UNCHANGED <<jobVars, pc, job_results, output_buffer, cur_id, dfsVars, current_node, links_left, queued,
                           finished, completed_futures, new_node, histVars,
                           cause, phrase_yielded, genVars, extVars>>
       ELSE Finalize("return")

\* A pool worker runs PageNode.make_pagenode(id_gen, link, parent, end_phrase)
\* to its end: None (the page is not retrievable), an exception other than
\* TypeError, or a node whose id is the generator's next.
WorkerRunBy(stubbed) ==
    /\ InBFS
    /\ \E task \in BagToSet(queued) :
         /\ queued' = queued (-) SetToBag({task})
         /\ \/ /\ finished' = finished (+) SetToBag({NoNode})
               /\ cur_id' = FailedInit(cur_id)
               /\ UNCHANGED task_raises
            \/ /\ task_raises < MaxRaises
               /\ finished' = finished (+) SetToBag({Raises})
               /\ task_raises' = task_raises + 1
               /\ cur_id' = FailedInit(cur_id)
            \/ /\ cur_id < MaxId
               /\ \E body_has_phrase \in BOOLEAN :
                    finished' = finished (+) SetToBag({
                        PageNode(NextId(cur_id), task.id, task.depth + 1, LinksLoaded,
                                 built_phrase_found(stubbed, body_has_phrase))})
               /\ cur_id' = NextId(cur_id)
               /\ UNCHANGED task_raises
    /\ UNCHANGED <<strategy, max_depth, restarts, pc, job_results, output_buffer, dfsVars,
                   depth, current_nodes, next_nodes, current_node, links_left,
                   completed_futures, new_node, histVars, cause, phrase_yielded, genVars, extVars>>

WorkerRun == WorkerRunBy(FALSE)

\* ------------------------------------------------------- deferred runtime
\* The task is run again: the instance died during the crawl, the task raised,
\* or the queue delivered it once more.  Nothing in memory survives.
Restart ==
    /\ pc \in {"crawl", "done", "raised", "returned"}
    /\ restarts < MaxRestarts
    /\ restarts' = restarts + 1
    /\ pc' = "scheduled"
    /\ output_buffer' = <<>>
    /\ cur_id' = 0
    /\ DfsIdle /\ BfsIdle
    /\ resumed' = FALSE /\ persisted' = 0 /\ cause' = "none" /\ phrase_yielded' = FALSE
    /\ UNCHANGED <<strategy, max_depth, job_results, task_raises, genVars, extVars>>

Next ==
    \/ start_crawler
    \/ InvokeFresh
    \/ InvokeResume
    \/ DFSReturn
    \/ DFSReloadFails
    \/ DFSBacktrack
    \/ DFSTryLink
    \/ BFSPop
    \/ BFSSubmit
    \/ BFSWait
    \/ BFSHarvest
    \/ BFSDrain
    \/ BFSNextLevel
    \/ WorkerRun
    \/ Restart

Spec == Init /\ [][Next]_vars

\* ------------------------------------- the strategies on stand-in page nodes
\* Crawler and its strategies with PageNode.make_pagenode replaced by a
\* stand-in whose nodes carry either value of phrase_found.
DFSTryLinkStub == DFSTryLinkBy(TRUE)

WorkerRunStub == WorkerRunBy(TRUE)

NextPhrase ==
    \/ start_crawler
    \/ InvokeFresh
    \/ InvokeResume
    \/ DFSReturn
    \/ DFSReloadFails
    \/ DFSBacktrack
    \/ DFSTryLinkStub
    \/ BFSPop
    \/ BFSSubmit
    \/ BFSWait
    \/ BFSHarvest
    \/ BFSDrain
    \/ BFSNextLevel
    \/ WorkerRunStub
    \/ Restart

SpecPhrase == Init /\ [][NextPhrase]_vars

\* ------------------------------------------------- IDGenerator, lines 40-60
\* Threads call one IDGenerator; cur_id is its counter.  A call is the steps of
\* "with self.lock: self.cur_id += 1; return self.cur_id".
Threads == 1..GenThreads

\* A lock that anyone may take at any time.
LockFree_Always(lock) == TRUE

\* Lock.acquire blocks until the lock is free (line 58).
LockFree(lock) == lock = 0

\* The largest value a completed call returned; starting - 1 when there is none.
MaxReturned ==
    IF gen_returned = <<>> THEN gen_start - 1
    ELSE Max({gen_returned[i].value : i \in 1..Len(gen_returned)})

InitIDGen ==
    /\ strategy = "BFS" /\ max_depth = 1 /\ pc = "init"
    /\ job_results = <<>> /\ output_buffer = <<>>
    /\ restarts = 0 /\ task_raises = 0
    /\ node_list = <<>> /\ cur_node = 0
    /\ depth = 0
    /\ current_nodes = <<>> /\ next_nodes = <<>>
    /\ current_node = NoNode
    /\ links_left = 0
    /\ queued = EmptyBag /\ finished = EmptyBag /\ completed_futures = EmptyBag
    /\ new_node = Unbound
    /\ resumed = FALSE /\ persisted = 0 /\ cause = "none" /\ phrase_yielded = FALSE
    /\ gen_start \in 1..MaxStart
    /\ cur_id = IDGenerator(gen_start)
    /\ gen_lock = 0
    /\ gen_pc = [t \in Threads |-> "idle"]
    /\ gen_tmp = [t \in Threads |-> 0]
    /\ gen_ret = [t \in Threads |-> 0]
    /\ gen_calls = [t \in Threads |-> 0]
    /\ gen_seen = [t \in Threads |-> 0]
    /\ gen_returned = <<>>
    /\ ExtIdle

\* A thread calls the generator.
GenCall(t) ==
    /\ gen_pc[t] = "idle"
    /\ gen_calls[t] < MaxCalls
    /\ gen_pc' = [gen_pc EXCEPT ![t] = "acquire"]
    /\ gen_calls' = [gen_calls EXCEPT ![t] = @ + 1]
    /\ gen_seen' = [gen_seen EXCEPT ![t] = MaxReturned]
    /\ UNCHANGED <<crawlVars, extVars, gen_start, gen_lock, gen_tmp, gen_ret, gen_returned>>

\* with self.lock: __enter__ (line 58)
GenAcquire(t) ==
    /\ gen_pc[t] = "acquire"
    /\ LockFree(gen_lock)
    /\ gen_lock' = t
    /\ gen_pc' = [gen_pc EXCEPT ![t] = "load"]
    /\ UNCHANGED <<crawlVars, extVars, gen_start, gen_tmp, gen_ret, gen_calls, gen_seen,
                   gen_returned>>

\* self.cur_id += 1 reads self.cur_id (line 59)
GenLoad(t) ==
    /\ gen_pc[t] = "load"
    /\ gen_tmp' = [gen_tmp EXCEPT ![t] = cur_id]
    /\ gen_pc' = [gen_pc EXCEPT ![t] = "store"]
    /\ UNCHANGED <<crawlVars, extVars, gen_start, gen_lock, gen_ret, gen_calls, gen_seen,
                   gen_returned>>

\* ... and stores the sum (line 59)
GenStore(t) ==
    /\ gen_pc[t] = "store"
    /\ cur_id' = NextId(gen_tmp[t])
    /\ gen_pc' = [gen_pc EXCEPT ![t] = "read"]
    /\ UNCHANGED <<strategy, max_depth, pc, job_results, output_buffer, restarts,
                   task_raises, dfsVars, bfsVars, histVars, cause, phrase_yielded,
                   gen_start, gen_lock, gen_tmp, gen_ret, gen_calls, gen_seen,
                   gen_returned, extVars>>

\* return self.cur_id evaluates its value (line 60)
GenRead(t) ==
    /\ gen_pc[t] = "read"
    /\ gen_ret' = [gen_ret EXCEPT ![t] = cur_id]
    /\ gen_pc' = [gen_pc EXCEPT ![t] = "release"]
    /\ UNCHANGED <<crawlVars, extVars, gen_start, gen_lock, gen_tmp, gen_calls, gen_seen,
                   gen_returned>>

\* the with statement's __exit__ releases the lock
GenRelease(t) ==
    /\ gen_pc[t] = "release"
    /\ gen_lock' = 0
    /\ gen_pc' = [gen_pc EXCEPT ![t] = "return"]
    /\ UNCHANGED <<crawlVars, extVars, gen_start, gen_tmp, gen_ret, gen_calls, gen_seen,
                   gen_returned>>

\* the call returns to its caller, and its frame is gone
GenReturn(t) ==
    /\ gen_pc[t] = "return"
    /\ gen_returned' = Append(gen_returned,
                              [value |-> gen_ret[t], seen |-> gen_seen[t], thread |-> t])
    /\ gen_pc' = [gen_pc EXCEPT ![t] = "idle"]
    /\ gen_tmp' = [gen_tmp EXCEPT ![t] = 0]
    /\ gen_ret' = [gen_ret EXCEPT ![t] = 0]
    /\ gen_seen' = [gen_seen EXCEPT ![t] = 0]
    /\ UNCHANGED <<crawlVars, extVars, gen_start, gen_lock, gen_calls>>

NextIDGen ==
    \E t \in Threads :
        \/ GenCall(t)
        \/ GenAcquire(t)
        \/ GenLoad(t)
        \/ GenStore(t)
        \/ GenRead(t)
        \/ GenRelease(t)
        \/ GenReturn(t)

SpecIDGen == InitIDGen /\ [][NextIDGen]_vars

\* ------------------------------------- crawler_output_to_datastore, 33-37
\* The output callback on its own: output_buffer is a flush of n entries (the
\* entry at place i is written i), job_results the records it puts.
InitShard ==
    /\ strategy = "BFS" /\ max_depth = 1 /\ pc = "flush"
    /\ job_results = <<>>
    /\ \E n \in 0..MaxFlush : output_buffer = [i \in 1..n |-> i]
    /\ cur_id = 0
    /\ restarts = 0 /\ task_raises = 0
    /\ node_list = <<>> /\ cur_node = 0
    /\ depth = 0
    /\ current_nodes = <<>> /\ next_nodes = <<>>
    /\ current_node = NoNode
    /\ links_left = 0
    /\ queued = EmptyBag /\ finished = EmptyBag /\ completed_futures = EmptyBag
    /\ new_node = Unbound
    /\ resumed = FALSE /\ persisted = 0 /\ cause = "none" /\ phrase_yielded = FALSE
    /\ GenIdle
    /\ ExtIdle

\* self.output_func(self.job_key, output_buffer)
ShardFlush ==
    /\ pc = "flush"
    /\ job_results' = job_results \o crawler_output_to_datastore(output_buffer)
    /\ pc' = "flushed"
    /\ UNCHANGED <<strategy, max_depth, output_buffer, cur_id, restarts, task_raises,
                   dfsVars, bfsVars, histVars, cause, phrase_yielded, genVars, extVars>>

NextShard == ShardFlush

SpecShard == InitShard /\ [][NextShard]_vars

\* ------------------------------------------------------- favicon values
\* The two paths of a host an icon is looked for at.
IcoPath == "/favicon.ico"
PngPath == "/icon.png"

\* What a site answers on a path: the icon, an error page with or without a
\* <link rel="icon"> (to one of the two paths), another status, or nothing.
Answers == {"200", "404", "404 -> /favicon.ico", "404 -> /icon.png", "500", "fails"}

\* A site: what it answers on each of the two paths.
Sites == [ico : Answers, png : {"200", "fails"}]

\* The page argument of get_favicon: not given, or a page with or without a
\* <link rel="icon">.
PageArgs == {"none", "page", "page -> /favicon.ico", "page -> /icon.png"}

\* icon_regex.search on a page: the path of the icon link, "" without a match.
icon_link(page) ==
    CASE page \in {"404 -> /favicon.ico", "page -> /favicon.ico"} -> IcoPath
      [] page \in {"404 -> /icon.png", "page -> /icon.png"} -> PngPath
      [] OTHER -> ""

NoIcon == [kind |-> "None", host |-> "", path |-> ""]
Absent == [kind |-> "absent", host |-> "", path |-> ""]
Raised == [kind |-> "raised", host |-> "", path |-> ""]
Icon(host, path) == [kind |-> "icon", host |-> host, path |-> path]

\* hashlib.md5(icon).hexdigest()
md5(icon) == [icon EXCEPT !.kind = "hash"]

\* cls.BASE + icon_hash + '.ico'
FaviconUrl(icon_hash) == [icon_hash EXCEPT !.kind = "url"]

\* --------------------------------------------- PageNode, page.py lines 139-243
\* A URL is the sequence of its parts: an optional scheme, the labels of the
\* host, an optional path.
Schemes == {"http://", "https://"}
HostNames == {<<"a.com">>, <<"a.com", ".au">>, <<"b.org">>}
Paths == {<<>>, <<"/x">>}

\* The strings link_regex can capture as the group link (the scheme is optional).
Links == {s \o h \o p : s \in {<<>>} \cup {<<x>> : x \in Schemes}, h \in HostNames, p \in Paths}

\* The anchors of a page body, in the order they stand in the page.
Anchors == UNION {[1..n -> Links] : n \in 0..MaxAnchors}

\* str.startswith
startswith(str, prefix) ==
    Len(prefix) <= Len(str) /\ SubSeq(str, 1, Len(prefix)) = prefix

\* __init__, lines 160-164: a link without a scheme gets http://.
normalize_url(url) ==
    IF url # <<>> /\ Head(url) \in Schemes THEN url ELSE <<"http://">> \o url

\* get_host: what host_regex matches at the start of url, scheme and host.
get_host(url) ==
    IF url[Len(url)] \in {p[1] : p \in Paths \ {<<>>}}
    THEN SubSeq(url, 1, Len(url) - 1)
    ELSE url

\* extract_links: the link group of every match, in the order of the page.
extract_links(page) == page.anchors

\* PageNode.load(end_phrase) on the response res: lines 196-207.
load(url, res, end_phrase_given) ==
    IF ~res.ok
    THEN [state |-> "TypeError", links |-> <<>>, phrase_found |-> FALSE]
    ELSE [state |-> "loaded",
          links |-> SelectSeq(extract_links(res),
                              LAMBDA link : ~startswith(link, get_host(url))),
          phrase_found |-> load_phrase_found(end_phrase_given, res.has_phrase)]

\* No favicon: None, on a page whose host is a sequence of URL parts.
NoFavicon == [kind |-> "None", host |-> <<>>, path |-> ""]

\* An exception left Favicon.get_favicon.
FaviconRaised == [kind |-> "raised", host |-> <<>>, path |-> ""]

\* The URL of the icon at its own site: host + '/favicon.ico'.
get_favicon_Remote(host, ico, saved) == [Icon(host, IcoPath) EXCEPT !.kind = "remote"]

\* page.py Favicon.get_favicon(url) on an empty cache (lines 83-125), for a
\* site that answers ico on host + '/favicon.ico'.  No response raises
\* AttributeError (res.status_code of None); a 200 gives BASE + md5 + '.ico'
\* once save_file has stored the icon, which can raise; a 404 page with an
\* icon link calls get_favicon for the link, which asks the link's host
\* for /favicon.ico again and so never ends (RuntimeError); every other
\* answer gives None.
get_favicon(host, ico, saved) ==
    CASE ico = "fails" -> FaviconRaised
      [] ico = "200" -> IF saved THEN FaviconUrl(md5(Icon(host, IcoPath)))
                        ELSE FaviconRaised
      [] ico # "200" /\ icon_link(ico) # "" -> FaviconRaised
      [] OTHER -> NoFavicon

InitPage ==
    /\ CrawlIdle /\ GenIdle
    /\ PostIdle /\ StoreIdle /\ PollIdle /\ FavIdle
    /\ page_url \in Links
    /\ page_end_phrase \in BOOLEAN
    /\ \/ page_response = [ok |-> FALSE, anchors |-> <<>>, has_phrase |-> FALSE,
                           ico |-> "fails", saved |-> FALSE]
       \/ \E a \in Anchors, f \in BOOLEAN, i \in Answers, s \in BOOLEAN :
            page_response = [ok |-> TRUE, anchors |-> a, has_phrase |-> f,
                             ico |-> i, saved |-> s]
    /\ page_node = [state |-> "unbuilt", links |-> <<>>, phrase_found |-> FALSE,
                    favicon |-> NoFavicon]
    /\ attempted = <<>>

\* PageNode.make_pagenode(id, url, parent, end_phrase): __init__ loads the page
\* with self.load() (line 169), a TypeError gives None; Favicon.get_favicon
\* (line 171) gives the favicon or raises, and what it raises is neither of
\* the two exceptions make_pagenode catches.
make_pagenode ==
    /\ page_node.state = "unbuilt"
    /\ LET url == normalize_url(page_url)
           l == load(url, page_response, FALSE)
           icon == get_favicon(get_host(url), page_response.ico, page_response.saved)
           built == [state |-> "built", links |-> l.links,
                     phrase_found |-> l.phrase_found, favicon |-> icon]
       IN  IF l.state = "TypeError"
           THEN page_node' = [built EXCEPT !.state = "none", !.favicon = NoFavicon]
           ELSE IF icon = FaviconRaised
           THEN page_node' = [state |-> "raises", links |-> <<>>,
                              phrase_found |-> FALSE, favicon |-> NoFavicon]
           ELSE page_node' = built
    /\ UNCHANGED <<crawlVars, genVars, favVars, page_url, page_end_phrase, page_response,
                   attempted, postVars, storeVars, pollVars>>

NextPage == make_pagenode

SpecPage == InitPage /\ [][NextPage]_vars

\* ------------------------------------------------ Crawler.post, main.py 60-93
\* What a POST /crawler can carry in its form fields.
StartPages == {"missing", "no-url", "url"}
SearchTypes == {"DFS", "BFS", "whatevah"}
Depths == {"missing", "abc", "1", "2"}

\* What fetching the seed page does at the time of the request: the page is
\* built, cannot be retrieved (make_pagenode gives None), or an exception
\* other than TypeError leaves make_pagenode.
Seeds == {"built", "unreachable", "raises"}

\* A request: its form, and what the fetch of its start_page will do.
Forms == [start_page : StartPages, search_type : SearchTypes, depth : Depths,
          seed : Seeds]

\* CrawlerForm fields after processing (lines 37-42): a missing depth takes
\* its default, a depth that is no integer is None.
\* int(valuelist[0]) of IntegerField.process_formdata; None when it raises.
ParseInt(str) ==
    CASE str = "1" -> 1
      [] str = "2" -> 2
      [] OTHER -> None

\* A depth field without a default.
depth_data_NoDefault(form) == ParseInt(form.depth)

depth_data(form) ==
    IF form.depth = "missing" THEN DefaultDepth ELSE ParseInt(form.depth)

\* A form that every validator accepts.
validate_Lax(form) == {}

\* CrawlerForm.validate: the fields with errors.  start_page has to match
\* url_regex, search_type has to be one of DFS and BFS, depth has to parse.
validate(form) ==
    (IF form.start_page = "url" THEN {} ELSE {"start_page"})
    \cup (IF form.search_type \in {"DFS", "BFS"} THEN {} ELSE {"search_type"})
    \cup (IF form.depth # "missing" /\ ParseInt(form.depth) = None
          THEN {"depth"} ELSE {})

\* The root start_crawler builds (line 357): the id is the 0 it passes, and
\* without a parent the node has parent None and depth 0.
SeedRoot == PageNode(0, None, 0, LinksLoaded, init_phrase_found(FALSE))

\* JobModel(...).put() accepts the entity: type is one of its choices and the
\* required depth is set (models.py 23-25).
JobModelValid(type, d) == type \in {"BFS", "DFS"} /\ d # None

\* start_crawler(url, search_type, max_depth, end_phrase) for a seed whose
\* fetch does what seed says: what it returns and what it leaves in the store.
start_crawler_result(form) ==
    LET type == form.search_type
        d == depth_data(form)
        job == [id |-> next_job_id, root |-> form.start_page, type |-> type,
                depth |-> d]
        same == [jobs |-> jobs, deferred |-> deferred, next |-> next_job_id]
        fetch == IF form.start_page = "url" THEN form.seed ELSE "unreachable"
    IN  IF fetch = "raises"
        THEN [raised |-> TRUE, root |-> NoNode, job_id |-> None] @@ same
        ELSE IF fetch = "unreachable"
        THEN [raised |-> FALSE, root |-> NoNode, job_id |-> None] @@ same
        ELSE IF ~JobModelValid(type, d)
        THEN [raised |-> TRUE, root |-> NoNode, job_id |-> None] @@ same
        ELSE [raised |-> FALSE, root |-> SeedRoot, job_id |-> job.id,
              jobs |-> jobs \cup {job},
              deferred |-> Append(deferred, [job |-> job.id, root |-> Pickled(SeedRoot),
                                             type |-> type, depth |-> d]),
              next |-> next_job_id + 1]

InitPost ==
    /\ CrawlIdle /\ GenIdle /\ PageIdle /\ FavIdle
    /\ PostIdle /\ StoreIdle /\ PollIdle

\* A client sends POST /crawler.
PostArrives ==
    /\ post_form = NoForm
    /\ posts < MaxPosts
    /\ posts' = posts + 1
    /\ post_form' \in Forms
    /\ post_response' = NoResponse
    /\ UNCHANGED <<crawlVars, genVars, favVars, pageVars, storeVars, pollVars>>

\* Crawler.post handles the request.
post ==
    /\ post_form # NoForm
    /\ post_form' = NoForm
    /\ LET errors == validate(post_form) IN
       IF errors = {}
       THEN LET r == start_crawler_result(post_form) IN
            /\ jobs' = r.jobs
            /\ deferred' = r.deferred
            /\ next_job_id' = r.next
            /\ post_response' =
                  IF r.raised
                  THEN [NoResponse EXCEPT !.status = "error"]
                  ELSE IF r.root = NoNode
                  THEN [NoResponse EXCEPT !.status = "failure",
                                          !.errors = {"Invalid URL"}]
                  ELSE [status |-> "success", errors |-> {},
                        job_id |-> r.job_id, root |-> r.root]
       ELSE /\ post_response' = [NoResponse EXCEPT !.status = "failure",
                                                   !.errors = errors]
            /\ UNCHANGED <<jobs, deferred, next_job_id>>
    /\ UNCHANGED <<crawlVars, genVars, favVars, pageVars, batches, posts, pollVars>>

NextPost == PostArrives \/ post

SpecPost == InitPost /\ [][NextPost]_vars

\* ------------------------------------------------- Crawler.get, main.py 95-138
\* The job ids a client polls: the job that exists at first, and one that
\* never does.
JobIds == {1, 2}

\* A node as a record of the store holds it.
StoredNode(id) == Pickled(PageNode(id, 0, 1, LinksLoaded, FALSE))

\* The JobResultsModel records of a job that are not marked returned, by
\* their place in the store (models.py 43).
Unreturned(job) ==
    {b \in 1..Len(batches) : batches[b].job = job /\ ~batches[b].returned}

\* rec.returned = True; rec.put() (models.py 50-51)
MarkReturned(rec) == [rec EXCEPT !.returned = TRUE]

\* A delete that leaves the records of the job.
JobDelete_KeepRecords(job) == [jobs |-> {j \in jobs : j.id # job}, batches |-> batches]

\* JobModel.delete (models.py 55-60): the records of the job, then the job.
JobDelete(job) ==
    [jobs |-> {j \in jobs : j.id # job},
     batches |-> SelectSeq(batches, LAMBDA rec : rec.job # job)]

\* The first entry that is a sentinel taken out of the list (main.py 126-128).
RECURSIVE RemoveSentinel(_)
RemoveSentinel(nodes) ==
    IF nodes = <<>> THEN <<>>
    ELSE IF IsSentinel(Head(nodes)) THEN Tail(nodes)
    ELSE <<Head(nodes)>> \o RemoveSentinel(Tail(nodes))

\* A start request has succeeded: the job is stored and its crawl deferred.
InitPoll ==
    /\ CrawlIdle /\ GenIdle /\ PageIdle /\ FavIdle
    /\ PostIdle
    /\ \E type \in {"DFS", "BFS"} :
         /\ jobs = {[id |-> 1, root |-> "url", type |-> type, depth |-> DefaultDepth]}
         /\ deferred = <<[job |-> 1, root |-> Pickled(SeedRoot), type |-> type,
                          depth |-> DefaultDepth]>>
    /\ next_job_id = 2
    /\ batches = <<>>
    /\ PollIdle

\* The crawl of job 1 flushes its buffer (crawler.py 121-125): one record of
\* the nodes yielded since the last flush, sorted by parent and id.  BFS
\* yields the node it yielded last once more when a fetch task raises in the
\* over-cap loop (crawler.py 270-279), and that node may have been written.
CrawlerFlush ==
    /\ ~crawl_over
    /\ \E n \in 0..MaxBatch, again \in BOOLEAN :
         /\ wrote + n <= MaxNodes
         /\ again => wrote >= 1 /\ reyields < MaxRaises
         /\ again \/ n >= 1
         /\ batches' = Append(batches,
                [job |-> 1,
                 results |-> (IF again THEN <<StoredNode(wrote)>> ELSE <<>>)
                             \o [i \in 1..n |-> StoredNode(wrote + i)],
                 returned |-> FALSE])
         /\ wrote' = wrote + n
         /\ reyields' = reyields + (IF again THEN 1 ELSE 0)
    /\ UNCHANGED <<crawlVars, genVars, favVars, pageVars, postVars, jobs, next_job_id,
                   deferred, poll, responses, polls, crawl_over>>

\* The crawl ends (crawler.py 131-137): the rest of the buffer and the sentinel.
CrawlerFinal ==
    /\ ~crawl_over
    /\ \E n \in 0..MaxBatch :
         /\ wrote + n <= MaxNodes
         /\ batches' = Append(batches,
                [job |-> 1,
                 results |-> Append([i \in 1..n |-> StoredNode(wrote + i)],
                                    TerminationSentinal),
                 returned |-> FALSE])
         /\ wrote' = wrote + n
    /\ crawl_over' = TRUE
    /\ UNCHANGED <<crawlVars, genVars, favVars, pageVars, postVars, jobs, next_job_id,
                   deferred, poll, responses, polls, reyields>>

\* A client sends GET /crawler/<job>, after the answer to the poll before.
PollArrives ==
    /\ poll.pc = "idle"
    /\ polls < MaxPolls
    /\ polls' = polls + 1
    /\ \E job \in JobIds : poll' = [NoPoll EXCEPT !.pc = "lookup", !.job = job]
    /\ UNCHANGED <<crawlVars, genVars, favVars, pageVars, postVars, storeVars, responses,
                   wrote, reyields, crawl_over>>

Answer(code, done, new_nodes) ==
    [job |-> poll.job, code |-> code, finished |-> done,
     new_nodes |-> new_nodes, read |-> poll.seen, entries |-> poll.nodes]

\* JobModel.get_by_id, a second time after a second (lines 102-108).
PollLookup ==
    /\ poll.pc = "lookup"
    /\ IF \E j \in jobs : j.id = poll.job
       THEN /\ poll' = [poll EXCEPT !.pc = "count"]
            /\ UNCHANGED responses
       ELSE /\ responses' = Append(responses, Answer(404, FALSE, <<>>))
            /\ poll' = NoPoll
    /\ UNCHANGED <<crawlVars, genVars, favVars, pageVars, postVars, storeVars, polls,
                   wrote, reyields, crawl_over>>

\* get_unreturned_results counts the query (models.py 43-45); with nothing to
\* return the handler sleeps and asks again, or gives up after 20 s and
\* answers an empty poll (main.py 110-117, 136).
PollCount ==
    /\ poll.pc = "count"
    /\ IF Unreturned(poll.job) # {}
       THEN /\ poll' = [poll EXCEPT !.pc = "iterate", !.counted = Unreturned(poll.job)]
            /\ UNCHANGED responses
       ELSE \/ /\ poll.waited < MaxWaits
               /\ poll' = [poll EXCEPT !.waited = @ + 1]
               /\ UNCHANGED responses
            \/ /\ responses' = Append(responses, Answer(200, FALSE, <<>>))
               /\ poll' = NoPoll
    /\ UNCHANGED <<crawlVars, genVars, favVars, pageVars, postVars, storeVars, polls,
                   wrote, reyields, crawl_over>>

\* A query that gives the newest record first.
NextRecord_Newest(left) == CHOOSE x \in left : \A y \in left : x >= y

\* for rec in qry (models.py 48): the query gives the records oldest first.
NextRecord(left) == CHOOSE x \in left : \A y \in left : x <= y

\* One turn of "for rec in qry" (models.py 48-51): the next record the query
\* gives is read and marked.  A record written while the loop runs may or may
\* not be among them.
PollIterate ==
    /\ poll.pc = "iterate"
    /\ LET left == Unreturned(poll.job) \ poll.seen IN
       /\ left # {}
       /\ LET b == NextRecord(left) IN
          /\ batches' = [batches EXCEPT ![b] = MarkReturned(@)]
          /\ poll' = [poll EXCEPT !.seen = @ \cup {b},
                                  !.nodes = @ \o batches[b].results]
    /\ UNCHANGED <<crawlVars, genVars, favVars, pageVars, postVars, jobs, next_job_id,
                   deferred, responses, polls, wrote, reyields, crawl_over>>

\* The loop is over, and the handler answers (main.py 119-136): a sentinel
\* among the nodes is taken out and the job deleted; the sort by id raises
\* on a sentinel that is left.
PollAnswer ==
    /\ poll.pc = "iterate"
    /\ poll.counted \subseteq poll.seen
    /\ LET done == \E i \in 1..Len(poll.nodes) : IsSentinel(poll.nodes[i])
           new_nodes == IF done THEN RemoveSentinel(poll.nodes) ELSE poll.nodes
           after == IF done THEN JobDelete(poll.job)
                    ELSE [jobs |-> jobs, batches |-> batches]
       IN  /\ jobs' = after.jobs
           /\ batches' = after.batches
           /\ responses' = Append(responses,
                  IF \E i \in 1..Len(new_nodes) : IsSentinel(new_nodes[i])
                  THEN Answer(500, FALSE, <<>>)
                  ELSE Answer(200, done, StableSort("id", new_nodes)))
    /\ poll' = NoPoll
    /\ UNCHANGED <<crawlVars, genVars, favVars, pageVars, postVars, next_job_id,
                   deferred, polls, wrote, reyields, crawl_over>>

NextPoll ==
    \/ CrawlerFlush
    \/ CrawlerFinal
    \/ PollArrives
    \/ PollLookup
    \/ PollCount
    \/ PollIterate
    \/ PollAnswer

SpecPoll == InitPoll /\ [][NextPoll]_vars

\* ------------------------------- Favicon, crawler/favicon.py lines 82-190
FavThreads == 1..FavThreadCount
FavHosts == {"a.com", "b.org"}

\* res.content of an icon (line 165).  Every host serves the same bytes at
\* /favicon.ico (the stock icon of the server software, named after the
\* first host) and bytes of its own at /icon.png.
Content(host, path) ==
    Icon(IF path = IcoPath THEN "a.com" ELSE host, path)

\* What a lookup gives: the icon or None, and how often it asked the host for
\* /favicon.ico.
Found(icon, probes) == [icon |-> icon, probes |-> probes]

\* _download_favicon(host + path, level) and, for a 404 answer,
\* _extract_favicon_from_page(res.content, favicon_url, level + 1) (148-190).
RECURSIVE download_favicon(_, _, _)
download_favicon(host, path, level) ==
    IF level > RecursionLimit THEN Found(NoIcon, 0)
    ELSE LET res == IF path = IcoPath THEN fav_web[host].ico ELSE fav_web[host].png
             asked == IF path = IcoPath THEN 1 ELSE 0
         IN  IF res = "200" THEN Found(Content(host, path), asked)
             ELSE IF icon_link(res) = "" \/ level + 1 > RecursionLimit
             THEN Found(NoIcon, asked)
             ELSE LET next == download_favicon(host, icon_link(res), level + 2)
                  IN  Found(next.icon, asked + next.probes)

\* _extract_favicon_from_page(page, url) as get_favicon calls it, level 1.
extract_favicon_from_page(host, page) ==
    IF icon_link(page) = "" THEN Found(NoIcon, 0)
    ELSE download_favicon(host, icon_link(page), 2)

\* Lines 117-123 of get_favicon: the page first, then the default route.
lookup_favicon(host, page) ==
    LET first == IF page # "none" THEN extract_favicon_from_page(host, page)
                 ELSE Found(NoIcon, 0)
    IN  IF page = "none" \/ first.icon = NoIcon
        THEN LET second == download_favicon(host, IcoPath, 1)
             IN  Found(second.icon, first.probes + second.probes)
        ELSE first

NoArg == [host |-> "", page |-> "none"]

InitFavicon ==
    /\ CrawlIdle /\ GenIdle /\ PageIdle /\ PostIdle /\ StoreIdle /\ PollIdle
    /\ fav_web \in [FavHosts -> Sites]
    /\ fav_lock = 0
    /\ fav_pc = [t \in FavThreads |-> "idle"]
    /\ fav_arg = [t \in FavThreads |-> NoArg]
    /\ fav_ret = [t \in FavThreads |-> Absent]
    /\ fav_calls = [t \in FavThreads |-> 0]
    /\ host_to_hash = [h \in FavHosts |-> Absent]
    /\ hash_set = {}
    /\ fav_blobs = {}
    /\ file_cache = <<>>
    /\ fav_walk = <<>>
    /\ fav_saves = EmptyBag
    /\ fav_probes = [h \in FavHosts |-> 0]
    /\ fav_returned = {}

\* A thread calls Favicon.get_favicon(url, page) for a page of host.
FavCall(t) ==
    /\ fav_pc[t] = "idle"
    /\ fav_calls[t] < MaxFavCalls
    /\ fav_calls' = [fav_calls EXCEPT ![t] = @ + 1]
    /\ \E host \in FavHosts, page \in PageArgs :
         fav_arg' = [fav_arg EXCEPT ![t] = [host |-> host, page |-> page]]
    /\ fav_pc' = [fav_pc EXCEPT ![t] = "acquire"]
    /\ UNCHANGED <<crawlVars, genVars, pageVars, postVars, storeVars, pollVars,
                   fav_web, fav_lock, fav_ret, host_to_hash, hash_set, fav_blobs,
                   auxVars,
                   fav_probes, fav_returned>>

\* with cls.lock (line 102)
FavAcquire(t) ==
    /\ fav_pc[t] = "acquire"
    /\ LockFree(fav_lock)
    /\ fav_lock' = t
    /\ fav_pc' = [fav_pc EXCEPT ![t] = "locked"]
    /\ UNCHANGED <<crawlVars, genVars, pageVars, postVars, storeVars, pollVars,
                   fav_web, fav_arg, fav_ret, fav_calls, host_to_hash, hash_set,
                   fav_blobs, auxVars, fav_probes, fav_returned>>

\* save_file(icon, icon_hash + '.ico') for every hash of names, when it succeeds.
save_file(blobs, names) == blobs \cup names

\* HostToHashDict.__setitem__ (53-59): only a key that is not there is set.
SetItem(dict, key, value) ==
    IF dict[key] = Absent THEN [dict EXCEPT ![key] = value] ELSE dict

\* A test that finds no hash in the set.
HashKnown_Never(icon_hash, set) == FALSE

\* HashSet.__contains__ (69-70)
HashKnown(icon_hash, set) == icon_hash \in set

\* line 133: the blob is saved for a hash the set does not hold.
ToSave(icon_hash) == IF HashKnown(icon_hash, hash_set) THEN {} ELSE {icon_hash}

\* The body of get_favicon under the lock (103-137): a hit answers from the
\* mapping; a miss looks the icon up, records the hash or None, and saves an
\* icon whose hash is new, which may raise.
FavBody(t) ==
    /\ fav_pc[t] = "locked"
    /\ LET host == fav_arg[t].host
           hit == host_to_hash[host]
           found == lookup_favicon(host, fav_arg[t].page)
           icon_hash == md5(found.icon)
       IN  IF hit # Absent
           THEN /\ fav_ret' = [fav_ret EXCEPT ![t] =
                       IF hit = NoIcon THEN NoIcon ELSE FaviconUrl(hit)]
                /\ UNCHANGED <<host_to_hash, hash_set, fav_blobs, fav_saves,
                               fav_probes>>
           ELSE /\ fav_probes' = [fav_probes EXCEPT ![host] = @ + found.probes]
                /\ IF found.icon = NoIcon
                   THEN /\ host_to_hash' = SetItem(host_to_hash, host, NoIcon)
                        /\ fav_ret' = [fav_ret EXCEPT ![t] = NoIcon]
                        /\ UNCHANGED <<hash_set, fav_blobs, fav_saves>>
                   ELSE /\ host_to_hash' = SetItem(host_to_hash, host, icon_hash)
                        /\ \/ /\ hash_set' = hash_set \cup {icon_hash}
                              /\ fav_blobs' = save_file(fav_blobs, ToSave(icon_hash))
                              /\ fav_saves' = fav_saves (+) SetToBag(ToSave(icon_hash))
                              /\ fav_ret' = [fav_ret EXCEPT ![t] = FaviconUrl(icon_hash)]
                           \/ /\ ToSave(icon_hash) # {}
                              /\ UNCHANGED <<hash_set, fav_blobs, fav_saves>>
                              /\ fav_ret' = [fav_ret EXCEPT ![t] = Raised]
    /\ fav_pc' = [fav_pc EXCEPT ![t] = "release"]
    /\ UNCHANGED <<crawlVars, genVars, pageVars, postVars, storeVars, pollVars,
                   fav_web, fav_lock, fav_arg, fav_calls, file_cache, fav_walk,
                   fav_returned>>

\* The with statement ends: the lock is released and the call returns or
\* raises.
FavReturn(t) ==
    /\ fav_pc[t] = "release"
    /\ fav_lock' = 0
    /\ fav_returned' = fav_returned \cup
            {[host |-> fav_arg[t].host, result |-> fav_ret[t]]}
    /\ fav_pc' = [fav_pc EXCEPT ![t] = "idle"]
    /\ fav_arg' = [fav_arg EXCEPT ![t] = NoArg]
    /\ fav_ret' = [fav_ret EXCEPT ![t] = Absent]
    /\ UNCHANGED <<crawlVars, genVars, pageVars, postVars, storeVars, pollVars,
                   fav_web, fav_calls, host_to_hash, hash_set, fav_blobs, auxVars,
                   fav_probes>>

NextFavicon ==
    \E t \in FavThreads : FavCall(t) \/ FavAcquire(t) \/ FavBody(t) \/ FavReturn(t)

SpecFavicon == InitFavicon /\ [][NextFavicon]_vars

\* ------------------- the strategies on the links of one node, crawler.py 193-197, 253-255
\* A node that load() has built from a page of any anchors is expanded by a
\* strategy: page_node is the node, links_left the links the BFS for loop has
\* yet to reach.

\* list.remove(x): the list without the first x.
remove(list, x) ==
    LET i == CHOOSE k \in 1..Len(list) :
                 list[k] = x /\ \A j \in 1..(k - 1) : list[j] # x
    IN  SubSeq(list, 1, i - 1) \o SubSeq(list, i + 1, Len(list))

InitLinks ==
    /\ strategy \in {"DFS", "BFS"}
    /\ max_depth = 1 /\ pc = "crawl"
    /\ job_results = <<>> /\ output_buffer = <<>>
    /\ cur_id = 0
    /\ restarts = 0 /\ task_raises = 0
    /\ node_list = <<>> /\ cur_node = 0
    /\ depth = 0
    /\ current_nodes = <<>> /\ next_nodes = <<>>
    /\ current_node = NoNode
    /\ queued = EmptyBag /\ finished = EmptyBag /\ completed_futures = EmptyBag
    /\ new_node = Unbound
    /\ resumed = FALSE /\ persisted = 0 /\ cause = "none" /\ phrase_yielded = FALSE
    /\ GenIdle
    /\ PostIdle /\ StoreIdle /\ PollIdle /\ FavIdle
    /\ page_url \in Links
    /\ page_end_phrase = FALSE
    /\ \E a \in Anchors :
         page_response = [ok |-> TRUE, anchors |-> a, has_phrase |-> FALSE,
                          ico |-> "404", saved |-> FALSE]
    /\ page_node = [state |-> "built",
                    links |-> load(normalize_url(page_url), page_response, FALSE).links,
                    phrase_found |-> FALSE, favicon |-> NoFavicon]
    /\ links_left = (IF strategy = "BFS" THEN Len(page_node.links) ELSE 0)
    /\ attempted = <<>>

\* DepthFirstCrawler._crawl, lines 194-197: one turn of the inner loop, for
\* any link random.choice may give.
DFSAttempt ==
    /\ strategy = "DFS"
    /\ Len(page_node.links) > 0
    /\ \E i \in 1..Len(page_node.links) :
         LET link == page_node.links[i] IN
         /\ page_node' = [page_node EXCEPT !.links = remove(@, link)]
         /\ attempted' = Append(attempted, link)
    /\ UNCHANGED <<crawlVars, genVars, favVars, page_url, page_end_phrase, page_response,
                   postVars, storeVars, pollVars>>

\* BredthFirstCrawl._crawl, lines 253-255: one turn of the for loop over the
\* links of current_node.
BFSSubmitLink ==
    /\ strategy = "BFS"
    /\ links_left > 0
    /\ LET link == page_node.links[Len(page_node.links) - links_left + 1] IN
       attempted' = Append(attempted, link)
    /\ links_left' = links_left - 1
    /\ UNCHANGED <<strategy, max_depth, pc, job_results, output_buffer, cur_id, restarts,
                   task_raises, node_list, cur_node, depth, current_nodes, next_nodes,
                   current_node, queued, finished, completed_futures, new_node,
                   resumed, persisted, cause, phrase_yielded, genVars, favVars,
                   page_url, page_end_phrase, page_response, page_node,
                   postVars, storeVars, pollVars>>

NextLinks == DFSAttempt \/ BFSSubmitLink

SpecLinks == InitLinks /\ [][NextLinks]_vars

\* ------------------------------ FileCache, crawler/favicon.py lines 17-78
\* One cache, HostToHashDict or HashSet: data is the set of its keys, saved the
\* keys of the pickle in the blob store, attempts the calls of _save so far.
CacheNames == {"hash_dict", "hash_set"}
Items == 1..MaxItems

\* lines 58 and 77: if self.new_count > 5
SaveDue(new_count) == new_count > SaveThreshold

\* FileCache._save (35-43): save_file either stores the pickle of data and the
\* count is reset, or raises, which is swallowed.
FileCache_save(cache, save_ok) ==
    IF save_ok
    THEN [cache EXCEPT !.saved = cache.data, !.new_count = 0,
                       !.attempts = @ + 1]
    ELSE [cache EXCEPT !.attempts = @ + 1]

\* HostToHashDict.__setitem__ (53-59) and HashSet.add (72-78) for item.
FileCache_add(cache, item, save_ok) ==
    IF item \in cache.data THEN cache
    ELSE LET added == [cache EXCEPT !.data = @ \cup {item},
                                    !.new_count = @ + 1]
         IN  IF SaveDue(added.new_count) THEN FileCache_save(added, save_ok)
             ELSE added

InitCache ==
    /\ CrawlIdle /\ GenIdle /\ PageIdle /\ PostIdle /\ StoreIdle /\ PollIdle
    /\ fav_web = <<>>
    /\ fav_lock = 0
    /\ fav_pc = <<>>
    /\ fav_arg = <<>>
    /\ fav_ret = <<>>
    /\ fav_calls = <<>>
    /\ host_to_hash = <<>>
    /\ hash_set = {}
    /\ fav_blobs = {}
    /\ fav_probes = <<>>
    /\ fav_returned = {}
    /\ \E name \in CacheNames :
         file_cache = [name |-> name, data |-> {}, new_count |-> 0, saved |-> {},
                       attempts |-> 0]
    /\ fav_walk = <<>>
    /\ fav_saves = <<>>

\* A caller sets a key of the mapping, or adds a hash to the set.
CacheAdd ==
    /\ \E item \in Items, save_ok \in BOOLEAN :
         file_cache' = FileCache_add(file_cache, item, save_ok)
    /\ UNCHANGED <<crawlVars, genVars, pageVars, postVars, storeVars, pollVars,
                   fav_web, fav_lock, fav_pc, fav_arg, fav_ret, fav_calls,
                   host_to_hash, hash_set, fav_blobs, fav_probes, fav_returned,
                   fav_walk, fav_saves>>

NextCache == CacheAdd

SpecCache == InitCache /\ [][NextCache]_vars

\* ------------- one get_favicon call, crawler/favicon.py lines 95-190, by steps
\* fav_walk is the call: the site it asks, what the mapping holds for the host
\* before the call, the page argument, where the call stands (pc, the stage
\* of get_favicon, the level of the helper that runs, the page it searches or
\* the path it downloads), the fetches made so far, the icon and the result.
WalkHost == "a.com"

\* A site whose two paths each answer in any of the ways.
WalkSites == [ico : Answers, png : Answers]

\* what host_to_hash may hold for the host before the call
WalkCached == {Absent, NoIcon, md5(Icon(WalkHost, IcoPath))}

\* retrieve_url(host + path)
SiteAnswer(web, path) == IF path = IcoPath THEN web.ico ELSE web.png

\* Helpers that recurse with no limit.
LevelExceeded_Never(level) == FALSE

\* lines 157 and 175: if level > 3: return None
LevelExceeded(level) == level > RecursionLimit

InitWalk ==
    /\ CrawlIdle /\ GenIdle /\ PageIdle /\ PostIdle /\ StoreIdle /\ PollIdle
    /\ fav_web = <<>>
    /\ fav_lock = 0
    /\ fav_pc = <<>>
    /\ fav_arg = <<>>
    /\ fav_ret = <<>>
    /\ fav_calls = <<>>
    /\ host_to_hash = <<>>
    /\ hash_set = {}
    /\ fav_blobs = {}
    /\ file_cache = <<>>
    /\ fav_saves = <<>>
    /\ fav_probes = <<>>
    /\ fav_returned = {}
    /\ \E web \in WalkSites, cached \in WalkCached, page \in PageArgs :
         fav_walk = [web |-> web, cached |-> cached, page |-> page, pc |-> "call",
                     stage |-> "", content |-> "", path |-> "", level |-> 0,
                     fetches |-> 0, icon |-> NoIcon, ret |-> Absent]

WalkUnchanged ==
    UNCHANGED <<crawlVars, genVars, pageVars, postVars, storeVars, pollVars,
                fav_web, fav_lock, fav_pc, fav_arg, fav_ret, fav_calls,
                host_to_hash, hash_set, fav_blobs, file_cache, fav_saves,
                fav_probes, fav_returned>>

\* get_favicon, lines 102-124: a hit returns from the mapping; a miss starts
\* with the page when there is one, else with host + '/favicon.ico'.
WalkCall ==
    /\ fav_walk.pc = "call"
    /\ fav_walk' =
         IF fav_walk.cached # Absent
         THEN [fav_walk EXCEPT !.pc = "done",
                  !.ret = IF fav_walk.cached = NoIcon THEN NoIcon
                          ELSE FaviconUrl(fav_walk.cached)]
         ELSE IF fav_walk.page # "none"
         THEN [fav_walk EXCEPT !.pc = "extract", !.stage = "page",
                               !.content = fav_walk.page, !.level = 1]
         ELSE [fav_walk EXCEPT !.pc = "download", !.stage = "default",
                               !.path = IcoPath, !.level = 1]
    /\ WalkUnchanged

\* _extract_favicon_from_page(page, url, level), lines 172-190.
WalkExtract ==
    /\ fav_walk.pc = "extract"
    /\ fav_walk' =
         IF LevelExceeded(fav_walk.level) \/ icon_link(fav_walk.content) = ""
         THEN [fav_walk EXCEPT !.pc = "resolved", !.icon = NoIcon]
         ELSE [fav_walk EXCEPT !.pc = "download",
                               !.path = icon_link(fav_walk.content),
                               !.level = @ + 1]
    /\ WalkUnchanged

\* _download_favicon(favicon_url, level), lines 148-169: one fetch unless the
\* level is past the limit.
WalkDownload ==
    /\ fav_walk.pc = "download"
    /\ LET res == SiteAnswer(fav_walk.web, fav_walk.path)
           fetched == [fav_walk EXCEPT !.fetches = @ + 1]
       IN  fav_walk' =
             IF LevelExceeded(fav_walk.level)
             THEN [fav_walk EXCEPT !.pc = "resolved", !.icon = NoIcon]
             ELSE CASE res = "200" ->
                         [fetched EXCEPT !.pc = "resolved",
                                         !.icon = Icon(WalkHost, fav_walk.path)]
                    [] res \in {"404", "404 -> /favicon.ico", "404 -> /icon.png"} ->
                         [fetched EXCEPT !.pc = "extract", !.content = res,
                                         !.level = @ + 1]
                    [] OTHER ->
                         [fetched EXCEPT !.pc = "resolved", !.icon = NoIcon]
    /\ WalkUnchanged

\* get_favicon, lines 123-137, with what a helper returned: the default route
\* after a page that gave no icon, else the mapping is set and the call
\* returns None or the URL, or save_file raises.
WalkResolved ==
    /\ fav_walk.pc = "resolved"
    /\ IF fav_walk.stage = "page" /\ fav_walk.icon = NoIcon
       THEN fav_walk' = [fav_walk EXCEPT !.pc = "download", !.stage = "default",
                                         !.path = IcoPath, !.level = 1]
       ELSE IF fav_walk.icon = NoIcon
       THEN fav_walk' = [fav_walk EXCEPT !.pc = "done", !.cached = NoIcon,
                                         !.ret = NoIcon]
       ELSE \E saved \in BOOLEAN :
              fav_walk' = [fav_walk EXCEPT !.pc = "done",
                              !.cached = md5(fav_walk.icon),
                              !.ret = IF saved THEN FaviconUrl(md5(fav_walk.icon))
                                      ELSE Raised]
    /\ WalkUnchanged

NextWalk == WalkCall \/ WalkExtract \/ WalkDownload \/ WalkResolved

SpecWalk == InitWalk /\ [][NextWalk]_vars

\* ------------- Favicon of page.py, lines 74-125, called by the fetch workers
\* PageNode.__init__ (page.py 171) calls the Favicon class of its own module,
\* which has no lock; the BFS workers (crawler.py 254) run it side by side.
\* A thread is before the lookup, between the lookup and the fetch, between
\* the fetch and the update of the mapping, or before save_file.  (A 404 page
\* with an icon link makes get_favicon call itself; SpecPage has that case.)
PageFavSites == [ico : {"200", "404", "500", "fails"}, png : {"200"}]

InitPageFavicon ==
    /\ CrawlIdle /\ GenIdle /\ PageIdle /\ PostIdle /\ StoreIdle /\ PollIdle
    /\ fav_web \in [FavHosts -> PageFavSites]
    /\ fav_lock = 0
    /\ fav_pc = [t \in FavThreads |-> "idle"]
    /\ fav_arg = [t \in FavThreads |-> NoArg]
    /\ fav_ret = [t \in FavThreads |-> Absent]
    /\ fav_calls = [t \in FavThreads |-> 0]
    /\ host_to_hash = [h \in FavHosts |-> Absent]
    /\ hash_set = {}
    /\ fav_blobs = {}
    /\ file_cache = <<>>
    /\ fav_walk = <<>>
    /\ fav_saves = <<>>
    /\ fav_probes = [h \in FavHosts |-> 0]
    /\ fav_returned = {}

\* The call returns result, or raises when result is Raised.
PageFavReturn(t, result) ==
    /\ fav_returned' = fav_returned \cup
            {[host |-> fav_arg[t].host, result |-> result]}
    /\ fav_pc' = [fav_pc EXCEPT ![t] = "idle"]
    /\ fav_arg' = [fav_arg EXCEPT ![t] = NoArg]

\* A worker builds a PageNode for a page of host: Favicon.get_favicon(self.url).
PageFavCall(t) ==
    /\ fav_pc[t] = "idle"
    /\ fav_calls[t] < MaxFavCalls
    /\ fav_calls' = [fav_calls EXCEPT ![t] = @ + 1]
    /\ \E host \in FavHosts :
         fav_arg' = [fav_arg EXCEPT ![t] = [host |-> host, page |-> "none"]]
    /\ fav_pc' = [fav_pc EXCEPT ![t] = "lookup"]
    /\ UNCHANGED <<crawlVars, genVars, pageVars, postVars, storeVars, pollVars,
                   fav_web, fav_lock, fav_ret, host_to_hash, hash_set, fav_blobs,
                   auxVars, fav_probes, fav_returned>>

\* lines 85-94: the cache lookup.
PageFavLookup(t) ==
    /\ fav_pc[t] = "lookup"
    /\ LET hit == host_to_hash[fav_arg[t].host] IN
       IF hit # Absent
       THEN PageFavReturn(t, IF hit = NoIcon THEN NoIcon ELSE FaviconUrl(hit))
       ELSE /\ fav_pc' = [fav_pc EXCEPT ![t] = "fetch"]
            /\ UNCHANGED <<fav_arg, fav_returned>>
    /\ UNCHANGED <<crawlVars, genVars, pageVars, postVars, storeVars, pollVars,
                   fav_web, fav_lock, fav_ret, fav_calls, host_to_hash, hash_set,
                   fav_blobs, auxVars, fav_probes>>

\* lines 96-98: retrieve_url(host + '/favicon.ico').
PageFavFetch(t) ==
    /\ fav_pc[t] = "fetch"
    /\ fav_probes' = [fav_probes EXCEPT ![fav_arg[t].host] = @ + 1]
    /\ fav_pc' = [fav_pc EXCEPT ![t] = "update"]
    /\ UNCHANGED <<crawlVars, genVars, pageVars, postVars, storeVars, pollVars,
                   fav_web, fav_lock, fav_arg, fav_ret, fav_calls, host_to_hash,
                   hash_set, fav_blobs, auxVars, fav_returned>>

\* lines 100-125 up to save_file: the mapping is set (a plain dict, the key is
\* overwritten); res.status_code raises for a fetch that gave None.
PageFavUpdate(t) ==
    /\ fav_pc[t] = "update"
    /\ LET host == fav_arg[t].host
           res == fav_web[host].ico
           icon_hash == md5(Icon(host, IcoPath))
       IN  CASE res = "fails" ->
                   /\ PageFavReturn(t, Raised)
                   /\ UNCHANGED host_to_hash
             [] res = "200" ->
                   /\ host_to_hash' = [host_to_hash EXCEPT ![host] = icon_hash]
                   /\ IF icon_hash \in hash_set
                      THEN PageFavReturn(t, FaviconUrl(icon_hash))
                      ELSE /\ fav_pc' = [fav_pc EXCEPT ![t] = "save"]
                           /\ UNCHANGED <<fav_arg, fav_returned>>
             [] OTHER ->
                   /\ host_to_hash' = [host_to_hash EXCEPT ![host] = NoIcon]
                   /\ PageFavReturn(t, NoIcon)
    /\ UNCHANGED <<crawlVars, genVars, pageVars, postVars, storeVars, pollVars,
                   fav_web, fav_lock, fav_ret, fav_calls, hash_set, fav_blobs,
                   auxVars, fav_probes>>

\* lines 107-110: save_file, which may raise, then hash_set.add.
PageFavSave(t) ==
    /\ fav_pc[t] = "save"
    /\ LET icon_hash == md5(Icon(fav_arg[t].host, IcoPath)) IN
       \/ /\ fav_blobs' = save_file(fav_blobs, {icon_hash})
          /\ hash_set' = hash_set \cup {icon_hash}
          /\ PageFavReturn(t, FaviconUrl(icon_hash))
       \/ /\ UNCHANGED <<fav_blobs, hash_set>>
          /\ PageFavReturn(t, Raised)
    /\ UNCHANGED <<crawlVars, genVars, pageVars, postVars, storeVars, pollVars,
                   fav_web, fav_lock, fav_ret, fav_calls, host_to_hash, auxVars,
                   fav_probes>>

NextPageFavicon ==
    \E t \in FavThreads :
        \/ PageFavCall(t) \/ PageFavLookup(t) \/ PageFavFetch(t)
        \/ PageFavUpdate(t) \/ PageFavSave(t)

SpecPageFavicon == InitPageFavicon /\ [][NextPageFavicon]_vars

\* ------------------------------------------------------------------ claims
\* What the store holds, as positions: <<record, place in the record>>.
Positions == {<<b, i>> : b \in 1..Len(job_results), i \in 1..BATCH_SIZE} \cap
             UNION {{<<b, i>> : i \in 1..Len(job_results[b])} : b \in 1..Len(job_results)}

Entry(pos) == job_results[pos[1]][pos[2]]

Earlier(p, q) == p[1] < q[1] \/ (p[1] = q[1] /\ p[2] < q[2])

\* The task has stopped: __call__ returned or an exception left it.
Ended == pc \in {"done", "returned", "raised"}

\* An invocation is under way or has gone through its finally block.
Running == pc \in {"crawl", "done"}

BagOf(s) == [x \in Range(s) |-> Cardinality({i \in DOMAIN s : s[i] = x})]

\* The nodes stored before this invocation began, and the nodes it has
\* yielded so far (stored since, or still in the buffer).
PersistedBefore == {e \in Range(Flatten(SubSeq(job_results, 1, persisted))) : IsNode(e)}
EmittedSeq == Flatten(SubSeq(job_results, persisted + 1, Len(job_results))) \o output_buffer
Emitted == {e \in Range(EmittedSeq) : IsNode(e)}

\* The entries a step appended to the store.
Written == Flatten(SubSeq(job_results', Len(job_results) + 1, Len(job_results')))

\* C1 (as stated): once the task of a job has stopped, the store holds exactly
\* one terminal sentinel and it is the last entry of the last record.
C1_OneSentinelLast ==
    Ended =>
        /\ Cardinality({pos \in Positions : IsSentinel(Entry(pos))}) = 1
        /\ job_results # <<>>
        /\ IsSentinel(job_results[Len(job_results)][Len(job_results[Len(job_results)])])

\* C2 (as stated, on finite runs): an invocation that an exception ended left
\* the sentinel in the store, i.e. only the resume of a finished job ends so.
C2_InvocationFinalizes ==
    pc = "raised" => HasSentinel(get_results)

\* C3: when the strategy raises, the step that ends the crawl writes every
\* buffered node and then the sentinel, leaves through the finally block, and
\* no step of a running crawl lets the exception out of the driver.
C3_RaiseFlushesBuffer ==
    [][pc = "crawl" =>
         /\ pc' # "raised"
         /\ cause' = "raise" =>
              /\ pc' = "done"
              /\ Written # <<>>
              /\ IsSentinel(Written[Len(Written)])
              /\ BagOf(SubSeq(Written, 1, Len(Written) - 1)) = BagOf(output_buffer)]_vars

\* C3 witness: a crawl ended by an exception whose last record holds nodes.
C3_Witness ==
    /\ pc = "done" /\ cause = "raise"
    /\ Len(job_results[Len(job_results)]) >= 3

\* C4: in a run that began on an empty store every yielded node has a depth in
\* 1..max_depth (the seed has 0) that is one more than the depth of its parent,
\* the seed or a yielded node.
C4_FreshDepths ==
    (Running /\ ~resumed) =>
        \A e \in Emitted :
            /\ e.depth \in 0..max_depth
            /\ \/ e.parent = Root.id /\ e.depth = Root.depth + 1
               \/ \E q \in Emitted : q.id = e.parent /\ e.depth = q.depth + 1

\* C4 witness: a fresh crawl that is over and reached depth max_depth = MaxDepth.
C4_Witness ==
    /\ pc = "done" /\ ~resumed /\ max_depth = MaxDepth
    /\ \E e \in Emitted : e.depth = max_depth

\* C5 (as stated): every stored node has its parent, one level up, at an
\* earlier position of the store.
C5_ParentStoredEarlier ==
    \A pos \in Positions :
        IsNode(Entry(pos)) =>
            \E q \in Positions :
                /\ Earlier(q, pos) /\ IsNode(Entry(q))
                /\ Entry(q).id = Entry(pos).parent
                /\ Entry(q).depth = Entry(pos).depth - 1

\* C5 (amended): every stored node is a child of the seed (id 0, depth 0, which
\* start_crawler returns and the driver never stores) at depth 1, or has its
\* parent, one level up, at an earlier position of the store.
C5_ParentSeedOrStoredEarlier ==
    \A pos \in Positions :
        IsNode(Entry(pos)) =>
            \/ Entry(pos).parent = Root.id /\ Entry(pos).depth = Root.depth + 1
            \/ \E q \in Positions :
                 /\ Earlier(q, pos) /\ IsNode(Entry(q))
                 /\ Entry(q).id = Entry(pos).parent
                 /\ Entry(q).depth = Entry(pos).depth - 1

\* C5 witness: a record that holds a node and, before it, the node's parent.
C5_Witness ==
    \E pos \in Positions, q \in Positions :
        /\ pos[1] = q[1] /\ q[2] < pos[2]
        /\ IsNode(Entry(pos)) /\ IsNode(Entry(q))
        /\ Entry(q).id = Entry(pos).parent

\* A step of a running invocation that yields: the nodes it adds.
YieldedNow ==
    IF pc = "crawl" /\ pc' \in {"crawl", "done"} /\ persisted' = persisted
    THEN Emitted' \ Emitted
    ELSE {}

\* C6 (as stated): the id of a yielded node is larger than the id of every
\* node the invocation yielded before, in DFS and in BFS; the seed has id 0.
C6_EmissionOrderIsIdOrder ==
    [][/\ Root.id = 0
       /\ \A e \in YieldedNow : \A o \in Emitted : o.id < e.id]_vars

\* C6 (amended): ids are handed out in increasing order, so a yielded node's id
\* is larger than its parent's; in DFS it is also larger than the id of every
\* node yielded before; the seed has id 0.  (BFS yields in any order.)
C6_IdsGrowDownTheTree ==
    [][/\ Root.id = 0
       /\ \A e \in YieldedNow :
            /\ e.parent < e.id
            /\ strategy = "DFS" => \A o \in Emitted : o.id < e.id]_vars

\* C6 witness: a BFS buffer in which a larger id was yielded before a smaller.
C6_Witness ==
    /\ InBFS
    /\ \E i \in 1..Len(output_buffer), j \in 1..Len(output_buffer) :
         i < j /\ output_buffer[i].id > output_buffer[j].id

\* C7: under every interleaving of the calls to one IDGenerator no value is
\* returned twice; the values returned, with those of the calls that hold one
\* and have not returned yet, are exactly starting..cur_id with no gap; and a
\* call returns more than every call that had completed when it began.
C7_IdsUniqueGaplessOrdered ==
    LET n == Len(gen_returned)
        vals == {gen_returned[i].value : i \in 1..n}
        held == {gen_ret[t] : t \in {u \in DOMAIN gen_pc : gen_pc[u] \in {"release", "return"}}}
                \cup (IF \E t \in DOMAIN gen_pc : gen_pc[t] = "read" THEN {cur_id} ELSE {})
    IN  /\ \A i \in 1..n, j \in 1..n : i # j => gen_returned[i].value # gen_returned[j].value
        /\ vals \cap held = {}
        /\ vals \cup held = gen_start..cur_id
        /\ \A i \in 1..n : gen_returned[i].value > gen_returned[i].seen

\* C7 witness: calls of different threads have returned, one of them begun
\* after another had completed, while a thread waits for the lock that another
\* thread holds.
C7_Witness ==
    /\ \E i \in 1..Len(gen_returned), j \in 1..Len(gen_returned) :
         /\ gen_returned[i].thread # gen_returned[j].thread
         /\ gen_returned[j].seen >= gen_returned[i].value
    /\ \E t \in DOMAIN gen_pc :
         gen_pc[t] = "acquire" /\ gen_lock # 0 /\ gen_lock # t

\* C8 (as stated): no node a resumed invocation yields has the id of a node
\* that was stored before it began.
C8_NoDuplicateIdOnResume ==
    (Running /\ resumed) =>
        \A e \in Emitted : \A o \in PersistedBefore : e.id # o.id

\* C9 (as stated): every node a resumed invocation yields has a depth of at
\* most max_depth.
C9_ResumeDepthBound ==
    (Running /\ resumed) => \A e \in Emitted : e.depth <= max_depth

\* C10: in every record the nodes stand in non-decreasing (parent, id) order,
\* and a sentinel is the last entry of its record.
C10_RecordsSorted ==
    \A b \in 1..Len(job_results) :
        LET rec == job_results[b] IN
        \A i \in 1..Len(rec), j \in 1..Len(rec) :
            i < j =>
              /\ IsNode(rec[i])
              /\ IsNode(rec[j]) =>
                   ~LexLess(SortKey("parent_id", rec[j]), SortKey("parent_id", rec[i]))

\* C10 witness: a record whose nodes are not in id order (the sort moved them),
\* and a final record with nodes before the sentinel.
C10_Witness ==
    /\ \E b \in 1..Len(job_results) :
         \E i \in 1..Len(job_results[b]), j \in 1..Len(job_results[b]) :
            /\ i < j /\ IsNode(job_results[b][i]) /\ IsNode(job_results[b][j])
            /\ job_results[b][i].id > job_results[b][j].id
    /\ pc = "done"
    /\ Len(job_results[Len(job_results)]) >= 2

\* C11: a flush of n entries is written as ceil(n/50) records of 1..50 entries
\* each whose concatenation, in write order, is the flushed list; a flush of
\* no entry writes no record.
C11_ShardsOfFifty ==
    pc = "flushed" =>
        LET n == Len(output_buffer) IN
        /\ Len(job_results) = (n + BATCH_SIZE - 1) \div BATCH_SIZE
        /\ \A b \in 1..Len(job_results) :
             Len(job_results[b]) >= 1 /\ Len(job_results[b]) <= BATCH_SIZE
        /\ Flatten(job_results) = output_buffer

\* C11 witness: a flush that needed three records, the last one not full.
C11_Witness ==
    /\ pc = "flushed"
    /\ Len(job_results) = 3
    /\ Len(job_results[3]) < BATCH_SIZE

\* The depths of the nodes whose children are being fetched or wait to be
\* yielded: the parents of the tasks in flight and of the results not taken yet.
PendingParentDepths ==
    {t.depth : t \in BagToSet(queued)}
    \cup {r.depth - 1 : r \in {x \in BagToSet(finished) \cup BagToSet(completed_futures) :
                                 IsNode(x)}}

\* C12 (as stated): in a fresh BFS the fetches in flight and the fetched
\* children not yet yielded all belong to nodes of one depth (no link of a
\* depth-d node is fetched while a child of a depth d-1 node is outstanding),
\* and the buffer holds its nodes in non-decreasing depth.
C12_DepthBarrier ==
    (InBFS /\ ~resumed) =>
        /\ Cardinality(PendingParentDepths) <= 1
        /\ \A i \in 1..Len(output_buffer), j \in 1..Len(output_buffer) :
             i < j => output_buffer[i].depth <= output_buffer[j].depth

\* every entry the job's records hold, in write order
Stored == Flatten(job_results)

\* C13: phrase termination.  On stand-in nodes, once a strategy (DFS, or BFS in
\* the over-cap loop or the drain) has yielded a node whose phrase_found is
\* true, the invocation yields nothing more, whatever fetch tasks are done or
\* in flight: _crawl has returned, the buffer is flushed, and the store ends
\* in the sentinel.
C13_PhraseStopsCrawl ==
    phrase_yielded =>
        /\ pc = "done" /\ cause = "return"
        /\ output_buffer = <<>>
        /\ job_results # <<>>
        /\ IsSentinel(Stored[Len(Stored)])
        /\ Len(Stored) >= 2 /\ IsNode(Stored[Len(Stored) - 1])

\* BFS stopped by the phrase while another fetch was done and unharvested
\* (its id was handed out but the node never stored).
C13_Witness ==
    /\ phrase_yielded /\ strategy = "BFS" /\ pc = "done"
    /\ cur_id > Max({e.id : e \in {x \in Range(Stored) : IsNode(x)}})

\* C14: every page node built by fetch-and-parse for a crawl with a configured
\* end phrase has phrase_found true exactly when the fetched body contains the
\* phrase.
C14_PhraseFoundIffInBody ==
    (page_node.state = "built" /\ page_end_phrase) =>
        (page_node.phrase_found <=> page_response.has_phrase)

\* C15: the links list load computes holds no URL twice and no URL that starts
\* with the page's own scheme://host.
C15_LinksUniqueAndForeign ==
    page_node.state = "built" =>
        /\ \A i, j \in 1..Len(page_node.links) :
              i # j => page_node.links[i] # page_node.links[j]
        /\ \A i \in 1..Len(page_node.links) :
              ~startswith(page_node.links[i], get_host(normalize_url(page_url)))

\* the step in which Crawler.post answers the request post_form
PostAnswered == post_form # NoForm /\ post_form' = NoForm

StoreUnchanged == jobs' = jobs /\ batches' = batches /\ deferred' = deferred

\* C16: a start request that fails leaves the system unchanged.  A seed that
\* cannot be fetched gives (None, None), answered as a failure; a request
\* without start_page, or with a search_type other than DFS and BFS, is
\* answered with the errors of the field; and no request that is not answered
\* with success creates a job record, writes a batch or schedules a crawl.
C16_FailedStartChangesNothing ==
    [][PostAnswered =>
        /\ (post_form.start_page = "missing" =>
              /\ post_response'.status = "failure"
              /\ "start_page" \in post_response'.errors)
        /\ (post_form.search_type = "whatevah" =>
              /\ post_response'.status = "failure"
              /\ "search_type" \in post_response'.errors)
        /\ (validate(post_form) = {} /\ post_form.seed = "unreachable" =>
              /\ post_response'.status = "failure"
              /\ post_response'.root = NoNode /\ post_response'.job_id = None)
        /\ (post_response'.status # "success" => StoreUnchanged)]_vars

\* A request for an unreachable seed was refused after an earlier one had
\* started a job: the store still holds that one job and its one task.
C16_Witness ==
    /\ posts = 2 /\ post_form = NoForm
    /\ post_response.status = "failure" /\ post_response.errors = {"Invalid URL"}
    /\ Cardinality(jobs) = 1 /\ Len(deferred) = 1

Delivered(i) == Range(responses[i].new_nodes)

\* C18: no re-delivery.  For successive polls of one job, interleaved in any
\* way with the writes of the crawl, every record is read by at most one poll:
\* a record a poll has read is marked returned, the records two polls read
\* are disjoint, and no node is in the answers to two polls.
C18_NoRedelivery ==
    /\ \A b \in poll.seen : b <= Len(batches) => batches[b].returned
    /\ \A i \in 1..Len(responses) : \A b \in responses[i].read :
          b <= Len(batches) => batches[b].returned
    /\ \A i, j \in 1..Len(responses) :
          (i < j /\ responses[i].job = responses[j].job) =>
              /\ responses[i].read \cap responses[j].read = {}
              /\ Delivered(i) \cap Delivered(j) = {}

HasSentinelEntry(entries) == \E k \in 1..Len(entries) : IsSentinel(entries[k])

ReturnedFor(host) ==
    {r \in fav_returned : r.host = host /\ r.result # Raised}

\* C20: for get_favicon calls for pages of one host, in any sequence or
\* interleaving, all calls return the same result (one URL, or None for all),
\* the host's /favicon.ico is fetched at most once in total, and a None
\* result is kept in the mapping like a hash.
C20_OneResultOneProbe ==
    \A host \in FavHosts :
        /\ \A r1, r2 \in ReturnedFor(host) : r1.result = r2.result
        /\ fav_probes[host] <= 1
        /\ \A r \in ReturnedFor(host) :
              r.result = NoIcon => host_to_hash[host] = NoIcon

\* C21: favicon cache invariant.  Whenever no get_favicon call holds the lock,
\* every hash the host-to-hash mapping holds is in the hash set and has its
\* blob <hash>.ico in the blob store; also after a save_file that failed.
C21_CacheInvariant ==
    fav_lock = 0 =>
        \A host \in DOMAIN host_to_hash :
            host_to_hash[host].kind = "hash" =>
                /\ host_to_hash[host] \in hash_set
                /\ host_to_hash[host] \in fav_blobs

\* The fetch tasks submitted and not yet taken by the driver: pending_futures
\* and the done ones futures.wait handed over that the for loop has yet to reach.
InFlight == PendingCount + BagCardinality(completed_futures)

\* C22: BFS backpressure.  After every step of a BFS crawl at most
\* PENDING_FUTURE_LIMIT + 1 fetch tasks are in flight, and a step that submits
\* tasks starts with at most PENDING_FUTURE_LIMIT in flight, whatever the
\* frontier and the number of links of a node.
C22_Backpressure ==
    [][/\ InFlight' <= PENDING_FUTURE_LIMIT + 1
       /\ BagCardinality(queued') > BagCardinality(queued) =>
             InFlight <= PENDING_FUTURE_LIMIT]_vars

\* C22 witness: the set is at its cap while the node being expanded has a link
\* left to submit.
C22_Witness ==
    /\ InBFS
    /\ PendingCount = PENDING_FUTURE_LIMIT + 1
    /\ links_left > 0

\* C23: make_pagenode turns every failure of fetch-and-parse into None: it
\* raises nothing, whichever step fails (the page fetch, a non-200 status, the
\* favicon lookup, a favicon probe that gets no response), and it gives a node
\* only when no step failed.
C23_FailureGivesNone ==
    page_node.state # "unbuilt" =>
        /\ page_node.state \in {"none", "built"}
        /\ page_node.state = "built" =>
              page_response.ok /\ page_response.ico # "fails"

\* the scheme://host of the page make_pagenode is called for
PageHost == get_host(normalize_url(page_url))

StoredNodes == SelectSeq(get_results, IsNode)

\* A stored node no stored node names as its parent, below max_depth.
IsFrontier(n) ==
    /\ n.depth < max_depth
    /\ \A i \in 1..Len(StoredNodes) : StoredNodes[i].parent # n.id

\* the step in which a BFS invocation loads the unfinished nodes of a job
\* that has not ended
BfsResumes ==
    /\ pc = "scheduled" /\ strategy = "BFS"
    /\ has_results /\ ~HasSentinel(get_results)

\* C25 (as stated): BFS resume frontier.  Whatever a crashed BFS crawl has
\* stored, the resumed crawl starts from exactly the stored nodes that are
\* below max_depth and are not the parent of a stored node, in
\* (depth, parent, id) order.
C25_ResumeFrontier ==
    [][BfsResumes =>
         /\ pc' = "crawl"
         /\ current_nodes' =
               StableSort("depth_parent_id",
                          [i \in 1..Len(SelectSeq(StoredNodes, IsFrontier)) |->
                              Unpickled(SelectSeq(StoredNodes, IsFrontier)[i])])]_vars

\* C26 (as stated): an invocation that resumes a job seeds the generator so
\* that the first id it hands out is one more than the largest id of all
\* the stored nodes of the job.
C26_ResumeSeedsPastMaxStored ==
    [][(pc = "scheduled" /\ has_results /\ pc' = "crawl") =>
          NextId(cur_id') =
             Max({StoredNodes[i].id : i \in 1..Len(StoredNodes)}) + 1]_vars

\* C27 (as stated): an invocation for a job whose records hold the sentinel
\* returns at once, for DFS and for BFS: it raises nothing, starts no crawl
\* and writes nothing.
C27_FinishedJobReturnsAtOnce ==
    [][(pc = "scheduled" /\ HasSentinel(get_results)) =>
          /\ pc' = "returned"
          /\ job_results' = job_results]_vars

\* C28 (as stated): DFS path invariant.  In every state of a DFS crawl, fresh
\* or resumed, the working list is indexed by id: the node at index k has id
\* k, the seed stands at index 0, and so node_list[n.parent] is the parent of
\* every non-seed node n of the list.
C28_PathIndexedById ==
    InDFS =>
        /\ \A k \in 1..Len(node_list) : node_list[k].id = k - 1
        /\ \A k \in 1..Len(node_list) :
              node_list[k].parent # None =>
                  node_list[node_list[k].parent + 1].id = node_list[k].parent

\* The step in which the driver takes the result of a fetch task that raised:
\* a turn of the loop over completed_futures, or of the drain at the end of
\* the level.
RaisedTaken ==
    /\ InBFS /\ pc' # "scheduled"
    /\ \/ /\ Harvesting
          /\ CopiesIn(Raises, completed_futures') < CopiesIn(Raises, completed_futures)
       \/ /\ ~Harvesting /\ ~OverCap /\ links_left = 0 /\ current_nodes = <<>>
          /\ CopiesIn(Raises, finished') < CopiesIn(Raises, finished)

\* C29 (as stated): a fetch task that raised counts as a null result in the
\* over-cap loop and in the drain: taking it yields no node (the buffer and
\* the store stay as they are) and the crawl goes on.
C29_RaisedTaskIsNull ==
    [][RaisedTaken =>
          /\ pc' = "crawl"
          /\ output_buffer' = output_buffer
          /\ job_results' = job_results]_vars

\* C30 (as stated): a strategy attempts no link URL of a node twice.  Every
\* DFS attempt shortens the node's links by one and leaves no occurrence of the
\* chosen URL in it, and the fetches BFS submits for a node are for distinct
\* URLs.
C30_NoLinkAttemptedTwice ==
    [][attempted' # attempted =>
          /\ \A i, j \in 1..Len(attempted') : i # j => attempted'[i] # attempted'[j]
          /\ strategy = "DFS" =>
                /\ Len(page_node'.links) = Len(page_node.links) - 1
                /\ \A k \in 1..Len(page_node'.links) :
                      page_node'.links[k] # attempted'[Len(attempted')]]_vars

\* The ids of the nodes the running invocation has built: those it yielded
\* and those the driver has yet to take from the fetch tasks.
CreatedIds ==
    {e.id : e \in Emitted}
    \cup {r.id : r \in {x \in BagToSet(finished) \cup BagToSet(completed_futures) :
                          IsNode(x)}}

\* a step in which a fetch-and-parse attempt fails: a DFS attempt that yields
\* nothing, or a BFS fetch task that ends with None or an exception
AttemptFails ==
    \/ /\ InDFS /\ pc' \in {"crawl", "done"}
       /\ Len(node_list') <= Len(node_list) /\ EmittedSeq' = EmittedSeq
    \/ /\ InBFS /\ pc' = "crawl"
       /\ \/ CopiesIn(NoNode, finished') > CopiesIn(NoNode, finished)
          \/ CopiesIn(Raises, finished') > CopiesIn(Raises, finished)

\* C31: a fetch-and-parse attempt that fails leaves the counter of the id
\* generator as it was, and so at every point of a fresh crawl the ids of the
\* nodes built so far are exactly 1..cur_id, without a gap.
C31_FailedAttemptTakesNoId ==
    [][/\ AttemptFails => cur_id' = cur_id
       /\ (pc' = "crawl" /\ ~resumed') => CreatedIds' = 1..cur_id']_vars

\* C31 witness: a fresh BFS crawl in which a fetch task gave None while the
\* tasks that built nodes have taken the ids 1 and 2.
C31_Witness ==
    /\ InBFS /\ ~resumed
    /\ CopiesIn(NoNode, finished) > 0
    /\ cur_id = 2 /\ CreatedIds = {1, 2}

\* the entries of the cache that no saved checkpoint holds
Unsaved(cache) == cache.data \ cache.saved

\* C32 (as stated): checkpoint cadence.  The add that makes the fifth new
\* entry since the last successful save attempts a save, so that after an
\* add no more than five entries are without a checkpoint; a save that fails
\* leaves the entry in memory and does not reset the count of new entries.
C32_SaveWithFifthEntry ==
    [][file_cache'.data # file_cache.data =>
          /\ file_cache.new_count + 1 = SaveThreshold =>
                file_cache'.attempts = file_cache.attempts + 1
          /\ Cardinality(Unsaved(file_cache')) <= SaveThreshold
          /\ (/\ file_cache'.attempts = file_cache.attempts + 1
              /\ file_cache'.saved = file_cache.saved)
             => /\ file_cache'.data \ file_cache.data # {}
                /\ file_cache'.new_count = file_cache.new_count + 1]_vars

\* How far a call is from its end: the stage of get_favicon first, then the
\* levels the running helper has left.
WalkRank(w) ==
    CASE w.pc = "done" -> 0
      [] w.pc = "call" -> 4 * (RecursionLimit + 2)
      [] w.pc = "resolved" -> IF w.stage = "page" THEN 2 * (RecursionLimit + 2) ELSE 1
      [] OTHER -> (IF w.stage = "page" THEN 2 * (RecursionLimit + 2) + 1 ELSE 2)
                     + (RecursionLimit + 1 - w.level)

ToExpand == current_nodes \o next_nodes

\* C34 (as stated): BFS coverage.  In a fresh BFS crawl every node below
\* max_depth is expanded exactly once, so no node waits for expansion twice,
\* a node is popped only when every link of the node before it has been
\* submitted, the level ends only when every node of it has been popped, and
\* no fetch is ever submitted for a link of a node at max_depth.
C34_BfsCoverage ==
    (InBFS /\ ~resumed) =>
        /\ \A i, j \in DOMAIN ToExpand :
              i # j => ToExpand[i].id # ToExpand[j].id
        /\ \A t \in BagToSet(queued) : t.depth < max_depth
        /\ \A i \in DOMAIN ToExpand : ToExpand[i].depth < max_depth

\* thread t is between the cache lookup and the end of the cache update
InResolution(t) == fav_pc[t] \in {"fetch", "update", "save"}

\* C35 (as stated): the favicon resolution of PageNode construction is
\* mutually exclusive across the fetch workers.  No two workers are between
\* the cache lookup and the cache update at the same time, so no host is
\* asked for /favicon.ico twice and no two workers are about to save the same
\* blob.
C35_ResolutionIsExclusive ==
    /\ \A t, u \in FavThreads : (t # u /\ InResolution(t)) => ~InResolution(u)
    /\ \A h \in FavHosts : fav_probes[h] <= 1
    /\ \A t, u \in FavThreads :
          (t # u /\ fav_pc[t] = "save" /\ fav_pc[u] = "save")
             => fav_arg[t].host # fav_arg[u].host

\* the nodes this invocation has yielded, as the store and the buffer hold them
EmittedNodes == SelectSeq(EmittedSeq, IsNode)

\* C36 (as stated): pipeline conservation.  On every step of a running driver,
\* wherever the periodic flushes fall, each node yielded so far stays held
\* once (in a record or in the buffer), at most the one node yielded by the
\* step is added, no node is held twice, and when the driver ends the buffer
\* is empty: every yielded node is in exactly one record.
C36_PipelineConservation ==
    [][(pc = "crawl" /\ pc' \in {"crawl", "done"} /\ persisted' = persisted) =>
          /\ \A n \in Range(EmittedNodes) :
                CopiesIn(n, BagOf(EmittedNodes')) = CopiesIn(n, BagOf(EmittedNodes))
          /\ Len(EmittedNodes') <= Len(EmittedNodes) + 1
          /\ \A i, j \in DOMAIN EmittedNodes' :
                i # j => EmittedNodes'[i] # EmittedNodes'[j]
          /\ pc' = "done" => output_buffer' = <<>>]_vars

\* the nodes the crawl of job 1 has written to the store so far
WrittenNodes == {StoredNode(id) : id \in 1..wrote}

MaxDepthEmitted == \E e \in Emitted : e.depth = max_depth

\* C38: a fresh DFS crawl stops with the first node of depth max_depth.  No
\* node is yielded after a node at max_depth, so at most one yielded node is
\* at max_depth and it is the last one; and the step of the crawl that follows
\* its yield is the return of _crawl, not a backtrack to try a sibling.
C38_DfsStopsAtMaxDepth ==
    [][(InDFS /\ ~resumed) =>
          /\ \A e \in YieldedNow : \A o \in Emitted : o.depth < max_depth
          /\ (MaxDepthEmitted /\ restarts' = restarts)
                => pc' = "done" /\ cause' = "return"
          /\ Cardinality({e \in Emitted' : e.depth = max_depth}) <= 1]_vars

\* A fresh DFS crawl has returned after three nodes: it backtracked from a
\* node above max_depth, and the one node at max_depth has the largest id.
C38_Witness ==
    /\ strategy = "DFS" /\ ~resumed /\ pc = "done" /\ cause = "return"
    /\ max_depth = 2
    /\ Cardinality(Emitted) = 3
    /\ \E e \in Emitted :
          /\ e.depth = max_depth
          /\ \A o \in Emitted \ {e} : o.id < e.id /\ o.depth < max_depth

\* the hosts whose only icon is the one at /favicon.ico, the same bytes for all
StockIconHosts ==
    {h \in FavHosts : fav_web[h].ico = "200" /\ fav_web[h].png = "fails"}

\* C39: favicon blobs are content-addressed.  A call that returns a URL
\* returns BASE + md5(icon bytes) + '.ico' for bytes the host serves; the blob
\* of a hash is saved at most once, however many hosts serve its bytes; and
\* hosts that serve identical bytes get the same URL.
C39_ContentAddressed ==
    /\ \A r \in fav_returned :
          r.result.kind = "url" =>
              \E path \in {IcoPath, PngPath} :
                  r.result = FaviconUrl(md5(Content(r.host, path)))
    /\ \A icon_hash \in BagToSet(fav_saves) : CopiesIn(icon_hash, fav_saves) <= 1
    /\ BagToSet(fav_saves) = fav_blobs
    /\ \A r1, r2 \in fav_returned :
          (/\ r1.host \in StockIconHosts /\ r2.host \in StockIconHosts
           /\ r1.result.kind = "url" /\ r2.result.kind = "url")
             => r1.result = r2.result

\* Two hosts that serve the same bytes have both got the URL of the one blob,
\* which was saved by the call for the first of them.
C39_Witness ==
    /\ StockIconHosts = FavHosts
    /\ \A h \in FavHosts :
          \E r \in fav_returned : r.host = h /\ r.result.kind = "url"
    /\ Cardinality(fav_blobs) = 1
    /\ BagCardinality(fav_saves) = 1

====
